---- MODULE Spec2Model ----
(***************************************************************************)
(* Verification model of fe-pilot (odilorg/fe-pilot).                      *)
(*                                                                         *)
(* The components are modelled each with a specification of its own:       *)
(*   SpecExecutor  ActionExecutor.execute     src/src/core/executor.ts     *)
(*   SpecClick     ActionExecutor.click       src/src/core/executor.ts     *)
(*   SpecObserver  Observer.captureObservation src/src/core/observer.ts    *)
(*   SpecExchange  AICommunicator.sendObservation / waitForAction          *)
(*                                             src/unnamed/part_001        *)
(*   SpecExplore   Explorer.explore           src/src/core/executor.ts     *)
(*   SpecSession   Explorer.explore with the steps of execute()            *)
(*   SpecPilot     Pilot.execute              src/src/core/pilot.ts        *)
(*   SpecObstacles EdgeCaseHandler.handleObstacles                         *)
(*                               src/src/core/form/edge-case-handler.ts    *)
(*   SpecSessions  explore() calls side by side (createSession and the     *)
(*                 files of the session directory)                         *)
(*   SpecUrls      Observer: urlBefore, urlAfter, urlChanged               *)
(*                                             src/src/core/observer.ts    *)
(*   SpecFill      ActionExecutor.fillField    src/src/core/executor.ts    *)
(* A specification leaves the variables of the other components at their   *)
(* initial values.                                                         *)
(***************************************************************************)
EXTENDS Integers, Sequences, FiniteSets, TLC

VARIABLES
    \* ---- ActionExecutor (executor.ts:18-62)
    lastAction,          \* private lastAction: string
    actionRepeatCount,   \* private actionRepeatCount: number
    epc,                 \* position inside execute(): idle | attempt | wait_for | waiting | caught
    curAction,           \* the action argument of the execute() call in progress / last made
    attempt,             \* loop variable of the retry loop
    lastError,           \* let lastError
    callResult,          \* how the last execute() call ended
    attemptsMade,        \* executeOnce invocations of the current call
    driverOps,           \* driver (page) operations issued by the current call
    delays,              \* backoff delays waited by the current call, in order
    recentKeys,          \* actionKey of the last three execute() calls
    recentCalls,         \* (kind, target, value) of the last three execute() calls
    waits,               \* the conditions of the last handleWaitFor call: pending or settled
    \* ---- Observer (observer.ts:10-113)
    consoleLogs,         \* private consoleLogs: ConsoleLog[]
    networkRequests,     \* private networkRequests: NetworkRequest[]
    lastObservationIndex,\* private lastObservationIndex = {console, network}
    inFlight,            \* captureObservation calls suspended on page introspection
    consoleDeltas,       \* newConsoleLogs of the captures made, in capture order
    networkDeltas,       \* newNetworkRequests of the captures made, in capture order
    logAtCapture,        \* lengths of both logs when the last capture returned
    \* ---- AICommunicator (part_001:10-202)
    actionFile,          \* content of action.json, or NoFile
    statusFile,          \* content of status.txt
    observationFile,     \* step number of the observation in observation.json
    cpc,                 \* position inside sendObservation()/waitForAction()
    elapsed,             \* Date.now() - startTime, in ms
    pollCount,           \* let pollCount
    returned,            \* ids of the decisions returned by waitForAction, in order
    waitError,           \* text of the error thrown by waitForAction, or NoError
    writes,              \* number of action.json files written by the decision-maker
    requests,            \* number of sendObservation calls made
    \* ---- Explorer (executor.ts:1051-1294)
    xpc,                 \* position inside explore()
    session,             \* this.session (ExplorationSession)
    goalMaxSteps,        \* goal.maxSteps
    currentStep,         \* let currentStep
    currentAction,       \* let currentAction (the Decision in hand)
    actionsToExecute,    \* const actionsToExecute
    stopOnError,         \* const stopOnError
    batchIdx,            \* loop variable i of the batch loop (0-based)
    batchRan,            \* the current loop iteration executed a non-empty batch
    iterObs,             \* observations captured since the current batch began
    iterReq,             \* decisions requested since the current batch began
    attemptedCount,      \* actions of the current batch handed to the executor
    firstFailed,         \* 1-based index of the first failed action of the batch, 0 if none
    cause,               \* which branch of explore() ended the session
    previousActions,     \* const previousActions: Action[]
    attempted,           \* 1-based indexes of the batch actions handed to the executor, in order
    failures,            \* 1-based indexes of the batch actions whose execute() threw, in order
    sessionFile,         \* content of session.json
    \* ---- Pilot (pilot.ts:15-126)
    ppc,                 \* position inside Pilot.execute()
    scenario,            \* scenario.steps
    config,              \* scenario.config
    stepI,               \* loop variable i of the step loop (0-based)
    stepAttempt,         \* loop variable attempt of the retry loop
    stepStatus,          \* let status
    overallStatus,       \* let overallStatus
    steps,               \* const steps: StepResult[]
    skipped,             \* let skipped
    executed,            \* step numbers handed to the executor, in order
    report,              \* the TestReport returned
    stepFailures,        \* what each failed attempt of the current step threw
    stepObservations,    \* the observations of the StepResults pushed, skipped ones left out
    \* ---- ActionExecutor.click (executor.ts:907-927)
    clickPc,             \* position of the click() call: idle | called | done
    dom,                 \* the elements of the page, in document order
    clickTarget,         \* action.selector and action.force of the click
    clickOutcome,        \* how click() ended and on which element it clicked
    \* ---- EdgeCaseHandler (edge-case-handler.ts:24-69)
    hpc,                 \* position inside handleObstacles()
    hconfig,             \* private config: FormTestConfig
    apiKey,              \* process.env.OPENAI_API_KEY is set
    attemptCount,        \* let attemptCount
    obstacle,            \* const obstacle: the type of the Obstacle detected, or none
    aiCallsCount,        \* private aiCallsCount
    totalAICost,         \* private totalAICost, in hundredths
    hresult,             \* how handleObstacles() ended: true | false | rejected
    page,                \* what the page shows and offers, per obstacle type
    page0,               \* the page when handleObstacles() was called
    detections,          \* the types of the obstacles detected, in order
    rulesTried,          \* handleWithRules on the current obstacle: no | handled | failed
    aiConsulted,         \* handleWithAI was entered during the call
    \* ---- concurrent explore() calls (executor.ts:1065-1074, 1238-1259)
    now,                 \* Date.now(), in ms
    mpc,                 \* position of each explore() call: new | running | waiting | done
    sessionDir,          \* session.sessionDir of each call
    existing,            \* the session directories on disk
    observationOf,       \* per directory: the session whose observation.json it holds, 0 if none
    actionFor,           \* per directory: the session its action.json answers, 0 if none
    consumed,            \* per session: the sessions answered by the Decisions it read
    \* ---- Observer, the URL of the page (observer.ts:15, 59-61, 91-113)
    pageUrl,             \* this.page.url()
    urlHistory,          \* private urlHistory: string[]
    urlObservations,     \* urlBefore, urlAfter, urlChanged of the Observations returned
    \* ---- ActionExecutor.fillField (executor.ts:208-343)
    fpc,                 \* position inside fillField()
    fillAction,          \* the fill_field action
    fieldElement,        \* the field the selector resolves to, as the page has it
    fieldInfo,           \* const fieldInfo
    fillResult,          \* how fillField() ended: returned | threw
    appliedBy            \* the strategy that set the field: none | type | label | value | partial

execVars == <<lastAction, actionRepeatCount, epc, curAction, attempt, lastError,
              callResult, attemptsMade, driverOps, delays, recentKeys, recentCalls, waits>>
obsVars  == <<consoleLogs, networkRequests, lastObservationIndex, inFlight,
              consoleDeltas, networkDeltas, logAtCapture>>
exchVars == <<actionFile, statusFile, observationFile, cpc, elapsed, pollCount,
              returned, waitError, writes, requests>>
explVars == <<xpc, session, goalMaxSteps, currentStep, currentAction, actionsToExecute,
              stopOnError, batchIdx, batchRan, iterObs, iterReq, attemptedCount,
              firstFailed, cause, previousActions, attempted, failures, sessionFile>>
pilotVars == <<ppc, scenario, config, stepI, stepAttempt, stepStatus, overallStatus,
               steps, skipped, executed, report, stepFailures, stepObservations>>
clickVars == <<clickPc, dom, clickTarget, clickOutcome>>
obstVars == <<hpc, hconfig, apiKey, attemptCount, obstacle, aiCallsCount, totalAICost,
              hresult, page, page0, detections, rulesTried, aiConsulted>>
multiVars == <<now, mpc, sessionDir, existing, observationOf, actionFor, consumed>>
urlVars == <<pageUrl, urlHistory, urlObservations>>
fillVars == <<fpc, fillAction, fieldElement, fieldInfo, fillResult, appliedBy>>
vars == <<execVars, obsVars, exchVars, explVars, pilotVars, clickVars, obstVars,
          multiVars, urlVars, fillVars>>

(***************************************************************************)
(* Bounds of the model.                                                    *)
(***************************************************************************)
MaxRepeatSeen == 4       \* execute() calls with one fingerprint in a row
MaxAttemptsBound == 2    \* largest retry.maxAttempts drawn
MaxEvents == 3           \* console events and network events logged
MaxCaptures == 3         \* captureObservation calls made
MaxWrites == 2           \* action.json files written by the decision-maker
MaxRequests == 2         \* sendObservation calls made
MaxBatch == 3            \* longest action batch of a Decision
MaxDecisions == 2        \* decisions requested in one exploration
MaxGoalSteps == 2        \* largest goal.maxSteps drawn
MaxScenarioSteps == 3    \* longest scenario run by the Pilot
MaxStepRetries == 1      \* largest config.retryFailedSteps drawn
MaxDomSize == 2          \* elements of the page a click is resolved against
MaxPresent == 2          \* obstacles on the page when handleObstacles() is called
MaxBudgetCharges == 2    \* largest maxAICost drawn, in charges of one decision
MaxSessions == 2         \* explore() calls running side by side
MaxClock == 2            \* milliseconds that pass while the sessions are created
MaxOptions == 2          \* options of a select

(***************************************************************************)
(* Values shared by the components.                                        *)
(***************************************************************************)
\* JavaScript undefined for an optional string field
Undefined == "<undefined>"

\* x || '' on an optional string: undefined and '' both give ''
OrEmpty(x) == IF x = Undefined THEN "" ELSE x

RECURSIVE Flatten(_)
Flatten(ss) == IF ss = << >> THEN << >> ELSE Head(ss) \o Flatten(Tail(ss))

(***************************************************************************)
(* ActionExecutor                                      executor.ts:18-201  *)
(***************************************************************************)
MAX_ACTION_REPEATS == 3
DEFAULT_BACKOFF == 1000

\* the cases of the switch in executeOnce
ImplementedKinds ==
    {"navigate", "click", "type", "select", "select_option", "fill_date", "upload",
     "wait", "scroll", "hover", "assert", "check_form", "press_key", "fill_field",
     "auto_fill_form", "toggle", "clear", "focus", "blur"}

\* action kinds drawn: one the switch of executeOnce handles, one it does not
Kinds == {"click", "swipe"}
Selectors == {Undefined, "#a"}
Values == {Undefined, "x"}
BackoffChoices == {0, 500}
\* JavaScript undefined for an optional number field (no negative number is drawn)
UndefinedNum == -1
\* action.retry: each of its two fields is optional; an absent retry and a
\* retry with neither field behave alike under retry?.field
RetryPolicies ==
    [maxAttempts : {UndefinedNum} \cup 0..MaxAttemptsBound,
     backoff : {UndefinedNum} \cup BackoffChoices]
NoRetry == [maxAttempts |-> UndefinedNum, backoff |-> UndefinedNum]

\* the actions drawn for execute(): every fingerprint without retry or wait_for,
\* and one implemented action under every retry policy, with and without wait_for
FingerprintActions ==
    [action : Kinds, selector : Selectors, value : Values,
     retry : {NoRetry}, wait_for : {FALSE}]
RetryActions ==
    [action : {"click"}, selector : {"#a"}, value : {Undefined},
     retry : RetryPolicies, wait_for : BOOLEAN]
\* navigate carries its target in action.url (lines 899-905)
Urls == {"/a", "/b", "/c"}
NavigateActions ==
    [action : {"navigate"}, selector : {Undefined}, value : {Undefined},
     retry : {NoRetry}, wait_for : {FALSE}, url : Urls]
Actions == FingerprintActions \cup RetryActions \cup NavigateActions

\* errors a handler of executeOnce can raise (element missing, driver timeout)
DriverErrors == {"ElementNotFound", "Timeout"}
WaitForError == "WaitTimeout"
NoError == "<none>"
NoResult == [status |-> "none", error |-> NoError]

\* `${action.action}:${action.selector || ''}:${action.value || ''}`
\* the (kind, target, value) of an action: the target of a navigate is its url
Fingerprint(a) ==
    <<a.action,
      IF a.action = "navigate"
      THEN (IF "url" \in DOMAIN a THEN a.url ELSE Undefined)
      ELSE a.selector,
      a.value>>

ActionKey(a) == a.action \o ":" \o OrEmpty(a.selector) \o ":" \o OrEmpty(a.value)

\* the limit compared with > instead of >=
RepeatLimitReached_Late(count) == count > MAX_ACTION_REPEATS

RepeatLimitReached(count) == count >= MAX_ACTION_REPEATS

\* the repetition guard of execute(): the new lastAction and actionRepeatCount,
\* and whether the call is rejected
RepetitionGuard(last, count, key) ==
    IF key = last
    THEN [lastAction |-> last, count |-> count + 1,
          rejected |-> RepeatLimitReached(count + 1)]
    ELSE [lastAction |-> key, count |-> 1, rejected |-> FALSE]

RepeatMessage(a) ==
    "Action repeated " \o ToString(MAX_ACTION_REPEATS) \o " times: " \o a.action

\* action.retry?.maxAttempts || 1
MaxAttemptsOf(a) ==
    IF a.retry.maxAttempts # UndefinedNum /\ a.retry.maxAttempts # 0
    THEN a.retry.maxAttempts ELSE 1

\* action.retry?.backoff || 1000
BackoffOf(a) ==
    IF a.retry.backoff # UndefinedNum /\ a.retry.backoff # 0
    THEN a.retry.backoff ELSE DEFAULT_BACKOFF

FinalMessage(a, err) ==
    "Action failed after " \o ToString(MaxAttemptsOf(a)) \o " attempts: " \o err

\* what executeOnce can do with an action: dispatch to a handler, which
\* succeeds or raises, or fall through the switch and succeed at once
ExecuteOnceOutcomes(a) ==
    IF a.action \in ImplementedKinds THEN {"ok"} \cup DriverErrors ELSE {"ok"}

\* driver operations of one executeOnce
DispatchOps(a) == IF a.action \in ImplementedKinds THEN 1 ELSE 0

Last3(s) == IF Len(s) <= 3 THEN s ELSE SubSeq(s, Len(s) - 2, Len(s))

ExecInit ==
    /\ lastAction = ""
    /\ actionRepeatCount = 0
    /\ epc = "idle"
    /\ curAction = [action |-> "navigate", selector |-> Undefined, value |-> Undefined,
                    retry |-> NoRetry, wait_for |-> FALSE]
    /\ attempt = 0
    /\ lastError = NoError
    /\ callResult = NoResult
    /\ attemptsMade = 0
    /\ driverOps = 0
    /\ delays = << >>
    /\ recentKeys = << >>
    /\ recentCalls = << >>
    /\ waits = << >>

\* execute(action), lines 30-45: the repetition guard, then entry of the retry loop
ExecuteBegin(a) ==
    /\ epc = "idle"
    /\ (ActionKey(a) = lastAction => actionRepeatCount < MaxRepeatSeen)
    /\ LET g == RepetitionGuard(lastAction, actionRepeatCount, ActionKey(a)) IN
        /\ lastAction' = g.lastAction
        /\ actionRepeatCount' = g.count
        /\ IF g.rejected
           THEN /\ callResult' = [status |-> "error", error |-> RepeatMessage(a)]
                /\ epc' = "idle"
           ELSE /\ callResult' = NoResult
                /\ epc' = "attempt"
    /\ curAction' = a
    /\ recentKeys' = Last3(Append(recentKeys, ActionKey(a)))
    /\ recentCalls' = Last3(Append(recentCalls, Fingerprint(a)))
    /\ attempt' = 1
    /\ lastError' = NoError
    /\ attemptsMade' = 0
    /\ driverOps' = 0
    /\ delays' = << >>
    /\ waits' = << >>

\* lines 46-54: one executeOnce(action) inside the try
ExecuteOnce ==
    /\ epc = "attempt"
    /\ attemptsMade' = attemptsMade + 1
    /\ driverOps' = driverOps + DispatchOps(curAction)
    /\ \E o \in ExecuteOnceOutcomes(curAction) :
        IF o = "ok"
        THEN IF curAction.wait_for
             THEN /\ epc' = "wait_for"
                  /\ UNCHANGED <<callResult, lastError>>
             ELSE /\ epc' = "idle"
                  /\ callResult' = [status |-> "success", error |-> NoError]
                  /\ UNCHANGED lastError
        ELSE /\ epc' = "caught"
             /\ lastError' = o
             /\ UNCHANGED callResult
    /\ UNCHANGED <<lastAction, actionRepeatCount, curAction, attempt, delays, recentKeys, recentCalls,
                   waits>>

\* the WaitForOptions an action with wait_for declares: one whose driver wait
\* raises on its timeout (lines 76-78) and one that returns silently (88-90, 97-119)
WaitConditions == <<[condition |-> "element_visible"], [condition |-> "no_loading"]>>

\* action.wait_for as the array of line 65
WaitConditionsOf(a) == IF a.wait_for THEN WaitConditions ELSE << >>

\* handleSingleWait, lines 70-95: how the promise of one condition settles when
\* the condition is met and when its timeout passes first
SingleWaitSettles(cond, how) ==
    IF how = "timeout" /\ cond.condition # "no_loading" THEN "rejected" ELSE "fulfilled"

\* Promise.all over the condition promises (line 67), seen when one of them
\* settles: it rejects with the first rejection, fulfils when all have fulfilled
PromiseAll(settled, othersPending) ==
    IF settled = "rejected" THEN "rejected"
    ELSE IF othersPending THEN "pending" ELSE "fulfilled"

\* lines 49-50, 64-67: handleWaitFor(action.wait_for) inside the same try: every
\* condition's handleSingleWait is called by the map and suspends in its driver wait
HandleWaitFor ==
    /\ epc = "wait_for"
    /\ waits' = [i \in 1..Len(WaitConditionsOf(curAction)) |-> "pending"]
    /\ driverOps' = driverOps + Len(WaitConditionsOf(curAction))
    /\ epc' = "waiting"
    /\ UNCHANGED <<lastAction, actionRepeatCount, curAction, attempt, lastError,
                   callResult, attemptsMade, delays, recentKeys, recentCalls>>

\* lines 67, 70-95 and 50-54: one pending condition is met or reaches its
\* timeout. While execute() awaits the Promise.all it resumes when that settles:
\* return on fulfilment, the catch block on rejection. A condition left pending
\* by a rejection settles later without anyone awaiting it.
WaitSettles ==
    /\ \E i \in 1..Len(waits), how \in {"met", "timeout"} :
        /\ waits[i] = "pending"
        /\ waits' = [waits EXCEPT ![i] = IF how = "met" THEN "resolved" ELSE "timed_out"]
        /\ LET all == PromiseAll(SingleWaitSettles(WaitConditions[i], how),
                                 \E j \in 1..Len(waits) : j # i /\ waits[j] = "pending")
           IN  IF epc # "waiting" \/ all = "pending"
               THEN UNCHANGED <<epc, callResult, lastError>>
               ELSE IF all = "fulfilled"
               THEN /\ epc' = "idle"
                    /\ callResult' = [status |-> "success", error |-> NoError]
                    /\ UNCHANGED lastError
               ELSE /\ epc' = "caught"
                    /\ lastError' = WaitForError
                    /\ UNCHANGED callResult
    /\ UNCHANGED <<lastAction, actionRepeatCount, curAction, attempt, attemptsMade,
                   driverOps, delays, recentKeys, recentCalls>>

\* lines 53-59: the catch block when attempts remain: wait the backoff, loop
Backoff ==
    /\ epc = "caught"
    /\ attempt < MaxAttemptsOf(curAction)
    /\ delays' = Append(delays, BackoffOf(curAction))
    /\ driverOps' = driverOps + 1
    /\ attempt' = attempt + 1
    /\ epc' = "attempt"
    /\ UNCHANGED <<lastAction, actionRepeatCount, curAction, lastError, callResult,
                   attemptsMade, recentKeys, recentCalls, waits>>

\* lines 53-61: the catch block of the last attempt, loop exit and final throw
ThrowFinal ==
    /\ epc = "caught"
    /\ ~(attempt < MaxAttemptsOf(curAction))
    /\ attempt' = attempt + 1
    /\ callResult' = [status |-> "error", error |-> FinalMessage(curAction, lastError)]
    /\ epc' = "idle"
    /\ UNCHANGED <<lastAction, actionRepeatCount, curAction, lastError, attemptsMade,
                   driverOps, delays, recentKeys, recentCalls, waits>>

(***************************************************************************)
(* Observer                                             observer.ts:10-113 *)
(***************************************************************************)
ConsoleTypes == {"log", "error"}
Statuses == {200, 500}

ObsInit ==
    /\ consoleLogs = << >>
    /\ networkRequests = << >>
    /\ lastObservationIndex = [console |-> 0, network |-> 0]
    /\ inFlight = 0
    /\ consoleDeltas = << >>
    /\ networkDeltas = << >>
    /\ logAtCapture = [console |-> 0, network |-> 0]

\* the whole log instead of the part behind the cursor
Slice_FromStart(arr, start) == arr

\* array.slice(start): the elements from 0-based index start on
Slice(arr, start) == SubSeq(arr, start + 1, Len(arr))

\* page.on('console') and page.on('pageerror'), lines 22-42: push one ConsoleLog
OnConsole ==
    /\ Len(consoleLogs) < MaxEvents
    /\ \E t \in ConsoleTypes :
        consoleLogs' = Append(consoleLogs, [id |-> Len(consoleLogs) + 1, type |-> t])
    /\ UNCHANGED <<networkRequests, lastObservationIndex, inFlight, consoleDeltas,
                   networkDeltas, logAtCapture>>

\* page.on('response'), lines 44-57: push one NetworkRequest
OnResponse ==
    /\ Len(networkRequests) < MaxEvents
    /\ \E st \in Statuses :
        networkRequests' =
            Append(networkRequests, [id |-> Len(networkRequests) + 1, status |-> st])
    /\ UNCHANGED <<consoleLogs, lastObservationIndex, inFlight, consoleDeltas,
                   networkDeltas, logAtCapture>>

\* captureObservation, lines 91-101: the call starts and suspends on the
\* screenshot and the page.evaluate calls
CaptureBegin ==
    /\ Len(consoleDeltas) + inFlight < MaxCaptures
    /\ inFlight' = inFlight + 1
    /\ UNCHANGED <<consoleLogs, networkRequests, lastObservationIndex, consoleDeltas,
                   networkDeltas, logAtCapture>>

\* the new cursor written by lines 104-105
NextCursor(logs, nets) == [console |-> Len(logs), network |-> Len(nets)]

\* lines 102-112: introspection has returned; the deltas are sliced and the
\* cursor is moved in one synchronous run, then the Observation is returned
CaptureSlice ==
    /\ inFlight > 0
    /\ inFlight' = inFlight - 1
    /\ consoleDeltas' =
           Append(consoleDeltas, Slice(consoleLogs, lastObservationIndex.console))
    /\ networkDeltas' =
           Append(networkDeltas, Slice(networkRequests, lastObservationIndex.network))
    /\ lastObservationIndex' = NextCursor(consoleLogs, networkRequests)
    /\ logAtCapture' = [console |-> Len(consoleLogs), network |-> Len(networkRequests)]
    /\ UNCHANGED <<consoleLogs, networkRequests>>

\* lines 97-99: captureScreenshot or captureDOMState raises (neither is inside
\* a try): the call ends with that error before the deltas are sliced
CaptureThrows ==
    /\ inFlight > 0
    /\ inFlight' = inFlight - 1
    /\ UNCHANGED <<consoleLogs, networkRequests, lastObservationIndex, consoleDeltas,
                   networkDeltas, logAtCapture>>

(***************************************************************************)
(* AICommunicator                                      part_001:10-202     *)
(***************************************************************************)
TIMEOUT_MS == 300000
POLL_INTERVAL_MS == 1000
ActionFileName == "action.json"
NoFile == [exists |-> FALSE, id |-> 0, wellFormed |-> FALSE, seen |-> 0]
NoWaitError == [kind |-> "none", expectedFile |-> "", waited |-> 0]

ExchInit ==
    /\ actionFile = NoFile
    /\ statusFile = ""
    /\ observationFile = 0
    /\ cpc = "running"
    /\ elapsed = 0
    /\ pollCount = 0
    /\ returned = << >>
    /\ waitError = NoWaitError
    /\ writes = 0
    /\ requests = 0

\* the decision-maker writes action.json: the k-th file it writes carries id k;
\* a file read while it is still being written does not parse; seen is the
\* observation.json on disk when the file is written
WriteAction ==
    /\ writes < MaxWrites
    /\ writes' = writes + 1
    /\ \E wf \in BOOLEAN :
        actionFile' = [exists |-> TRUE, id |-> writes + 1, wellFormed |-> wf,
                       seen |-> observationFile]
    /\ UNCHANGED <<statusFile, observationFile, cpc, elapsed, pollCount, returned,
                   waitError, requests>>

\* the status written first and the observation after it
SendWrites_StatusFirst == <<"status", "observation">>

\* the two file writes of sendObservation in program order (lines 96 and 99)
SendWrites == <<"observation", "status">>

\* fs.writeFileSync(this.observationFile, ...) for checkpoint n (line 96), or
\* this.setStatus('WAITING_FOR_AI') (lines 99, 176-178)
SendWrite(which, n) ==
    /\ observationFile' = IF which = "observation" THEN n ELSE observationFile
    /\ statusFile' = IF which = "status" THEN "WAITING_FOR_AI" ELSE statusFile

\* sendObservation, lines 90-96: the call and its first file write; the
\* decision-maker, another process, can see the files between the two writes
SendObservation ==
    /\ cpc = "running"
    /\ requests < MaxRequests
    /\ requests' = requests + 1
    /\ SendWrite(SendWrites[1], requests + 1)
    /\ cpc' = "sending"
    /\ UNCHANGED <<actionFile, elapsed, pollCount, returned, waitError, writes>>

\* lines 99-109 and 126-128: the second file write, then waitForAction starts
SendObservationWait ==
    /\ cpc = "sending"
    /\ SendWrite(SendWrites[2], requests)
    /\ elapsed' = 0
    /\ pollCount' = 0
    /\ cpc' = "wait_check"
    /\ UNCHANGED <<actionFile, returned, waitError, writes, requests>>

\* while (Date.now() - startTime < timeout)
WithinTimeout(e) == e < TIMEOUT_MS

\* the file left in place after the read
Unlinked_Kept(f) == f

\* action.json after fs.unlinkSync(this.actionFile)
Unlinked(f) == NoFile

\* the status left as it was after the read
StatusAfterRead_Stale == "WAITING_FOR_AI"

\* this.setStatus('RUNNING') (line 151)
StatusAfterRead == "RUNNING"

\* waitForAction, lines 135-160: one loop iteration that finds action.json
PollFound ==
    /\ cpc = "wait_check"
    /\ WithinTimeout(elapsed)
    /\ actionFile.exists
    /\ pollCount' = pollCount + 1
    /\ IF actionFile.wellFormed
       THEN /\ returned' = Append(returned, actionFile.id)
            /\ actionFile' = Unlinked(actionFile)
            /\ statusFile' = StatusAfterRead
            /\ cpc' = "running"
            /\ UNCHANGED waitError
       ELSE \* JSON.parse raises before the unlink and the status write
            /\ waitError' = [kind |-> "syntax", expectedFile |-> "", waited |-> pollCount + 1]
            /\ cpc' = "threw"
            /\ UNCHANGED <<returned, actionFile, statusFile>>
    /\ UNCHANGED <<observationFile, elapsed, writes, requests>>

\* lines 135-144, 163: one loop iteration that finds no file and starts to sleep
PollMissing ==
    /\ cpc = "wait_check"
    /\ WithinTimeout(elapsed)
    /\ ~actionFile.exists
    /\ pollCount' = pollCount + 1
    /\ cpc' = "sleeping"
    /\ UNCHANGED <<actionFile, statusFile, observationFile, elapsed, returned,
                   waitError, writes, requests>>

\* line 163: the poll interval has passed
Wake ==
    /\ cpc = "sleeping"
    /\ elapsed' = elapsed + POLL_INTERVAL_MS
    /\ cpc' = "wait_check"
    /\ UNCHANGED <<actionFile, statusFile, observationFile, pollCount, returned,
                   waitError, writes, requests>>

\* the error naming the observation file instead of the action file
TimeoutError_WrongFile(polls) ==
    [kind |-> "timeout", expectedFile |-> "observation.json", waited |-> polls]

\* the Error of lines 166-170
TimeoutError(polls) ==
    [kind |-> "timeout", expectedFile |-> ActionFileName, waited |-> polls]

\* lines 135, 166-170: the loop condition fails and the timeout error is thrown
WaitTimeout ==
    /\ cpc = "wait_check"
    /\ ~WithinTimeout(elapsed)
    /\ waitError' = TimeoutError(pollCount)
    /\ cpc' = "threw"
    /\ UNCHANGED <<actionFile, statusFile, observationFile, elapsed, pollCount,
                   returned, writes, requests>>

(***************************************************************************)
(* Explorer                                          executor.ts:1051-1294 *)
(***************************************************************************)
DEFAULT_MAX_STEPS == 50

\* the actions a Decision can carry: a Decision is parsed JSON whose actions
\* are cast to Action (line 1142), so one of them carries a retry policy
ActA == [action |-> "click", selector |-> "#a", value |-> Undefined,
         retry |-> NoRetry, wait_for |-> FALSE]
ActB == [action |-> "type", selector |-> "#a", value |-> "x",
         retry |-> [maxAttempts |-> 2, backoff |-> 500], wait_for |-> FALSE]
ExplActions == {ActA, ActB}
NoAction == [action |-> "", selector |-> Undefined, value |-> Undefined,
             retry |-> NoRetry, wait_for |-> FALSE]
\* { action: 'navigate', url } of line 1084
NavigateAction == [action |-> "navigate", selector |-> Undefined, value |-> Undefined,
                   retry |-> NoRetry, wait_for |-> FALSE]

\* the batches drawn: the prefixes of one action repeated and of the two
\* actions alternating, either one first
BatchPatterns ==
    {[i \in 1..MaxBatch |-> ActA],
     [i \in 1..MaxBatch |-> IF i % 2 = 1 THEN ActA ELSE ActB],
     [i \in 1..MaxBatch |-> IF i % 2 = 1 THEN ActB ELSE ActA]}
Batches == {SubSeq(p, 1, n) : p \in BatchPatterns, n \in 0..MaxBatch}
Reasonings == {"r1", "r2"}
TerminalTags == {"goal_achieved", "stuck", "abort"}
\* AIAction.stopOnError?: boolean
StopFlags == {"undefined", "true", "false"}

\* the Decisions a decision request can return (AIAction, types/ai.ts:54-77): a
\* continue carries a batch in actions, or a single action, or neither; the
\* action fields of a terminal Decision are never read and are left empty, and
\* the rationale, which the code only logs, varies on terminal Decisions only
ContinueDecisions ==
    [decision : {"continue"}, reasoning : {"r1"}, hasActions : {TRUE},
     actions : Batches, single : {NoAction}, stopOnError : StopFlags,
     nextCheckpoint : BOOLEAN]
    \cup
    [decision : {"continue"}, reasoning : {"r1"}, hasActions : {FALSE},
     actions : {<< >>}, single : ExplActions \cup {NoAction}, stopOnError : StopFlags,
     nextCheckpoint : BOOLEAN]
TerminalDecisions ==
    [decision : TerminalTags, reasoning : Reasonings, hasActions : {FALSE},
     actions : {<< >>}, single : {NoAction}, stopOnError : {"undefined"},
     nextCheckpoint : {FALSE}]
Decisions == ContinueDecisions \cup TerminalDecisions
NoDecision == [decision |-> "none", reasoning |-> "", hasActions |-> FALSE,
               actions |-> << >>, single |-> NoAction, stopOnError |-> "undefined",
               nextCheckpoint |-> FALSE]

\* what session.actions keeps of a Decision, as far as the model tracks it
Recorded(d) == [decision |-> d.decision, reasoning |-> d.reasoning]

\* the goal.maxSteps drawn: omitted, the smallest, the largest
GoalSteps == {0, 1, MaxGoalSteps}

\* goal.maxSteps || 50 (0 stands for an omitted or zero maxSteps)
Budget(maxSteps) == IF maxSteps = 0 THEN DEFAULT_MAX_STEPS ELSE maxSteps

\* currentAction.actions || (currentAction.action ? [currentAction.action] : [])
ActionsToExecute(d) ==
    IF d.hasActions THEN d.actions
    ELSE IF d.single # NoAction THEN <<d.single>> ELSE << >>

\* an omitted stopOnError taken as false
StopOnError_Strict(d) == d.stopOnError = "true"

\* currentAction.stopOnError !== false
StopOnError(d) == d.stopOnError # "false"

\* session.json before the first saveSession
NoSessionFile == [status |-> "none", currentStep |-> 0, observations |-> << >>,
                  actions |-> << >>]

\* the last recorded entry replaced by the new one
Push_Overwrite(arr, x) == IF arr = << >> THEN <<x>> ELSE [arr EXCEPT ![Len(arr)] = x]

\* Array.prototype.push on session.observations and session.actions
\* (lines 1100, 1104, 1182, 1186, 1201)
Push(arr, x) == Append(arr, x)

\* saveSession (part_001:191-194): JSON.stringify(this.session) written to
\* session.json, as far as the model tracks the session
SaveSession(sess) == sess

ExplInit ==
    /\ xpc = "start"
    /\ session = [status |-> "running", currentStep |-> 0, observations |-> << >>,
                  actions |-> << >>]
    /\ goalMaxSteps = 0
    /\ currentStep = 0
    /\ currentAction = NoDecision
    /\ actionsToExecute = << >>
    /\ stopOnError = TRUE
    /\ batchIdx = 0
    /\ batchRan = FALSE
    /\ iterObs = 0
    /\ iterReq = 0
    /\ attemptedCount = 0
    /\ firstFailed = 0
    /\ cause = "none"
    /\ previousActions = << >>
    /\ attempted = << >>
    /\ failures = << >>
    /\ sessionFile = NoSessionFile

\* what prepareObservation keeps of an action (part_001:77-83)
ActionSummary(a) == [action |-> a.action, selector |-> a.selector, value |-> a.value]

\* prepareObservation (part_001:40-85), as far as the model tracks an
\* AIObservation: the step number and the actions executed so far; the other
\* fields describe the page
PrepareObservation(step, prev) ==
    [stepNumber |-> step,
     previousActions |-> [i \in 1..Len(prev) |-> ActionSummary(prev[i])]]

\* executor.execute(a) as one step of explore(): the repetition guard, then the
\* attempts of the retry loop; TRUE when the call returns, FALSE when it throws
ExecuteInExplore(a, ok) ==
    LET g == RepetitionGuard(lastAction, actionRepeatCount, ActionKey(a)) IN
    /\ lastAction' = g.lastAction
    /\ actionRepeatCount' = g.count
    /\ ok \in (IF g.rejected THEN {FALSE}
               ELSE {o = "ok" : o \in ExecuteOnceOutcomes(a)})

batchGhosts == <<batchRan, iterObs, iterReq, attemptedCount, firstFailed, attempted,
                 failures>>

\* explore(url, goal), lines 1065-1084: session creation, launch, initial navigation
Explore ==
    /\ xpc = "start"
    /\ \E m \in GoalSteps : goalMaxSteps' = m
    /\ \E ok \in BOOLEAN :
        /\ ExecuteInExplore(NavigateAction, ok)
        /\ IF ok THEN xpc' = "capture_initial" /\ UNCHANGED cause
                 ELSE xpc' = "catch" /\ cause' = "action_error"
    /\ UNCHANGED <<session, currentStep, currentAction, actionsToExecute, stopOnError,
                   batchIdx, batchGhosts, previousActions, sessionFile>>

\* lines 1087-1100: the initial observation is captured and recorded
CaptureInitial ==
    /\ xpc = "capture_initial"
    /\ \/ /\ previousActions' = Append(previousActions, NavigateAction)
          /\ session' = [session EXCEPT !.observations =
                             Push(@, PrepareObservation(1, previousActions'))]
          /\ xpc' = "send_first"
          /\ UNCHANGED cause
       \/ /\ xpc' = "catch"
          /\ cause' = "capture_error"
          /\ UNCHANGED <<session, previousActions>>
    /\ UNCHANGED <<lastAction, actionRepeatCount, goalMaxSteps, currentStep, currentAction,
                   actionsToExecute, stopOnError, batchIdx, batchGhosts, sessionFile>>

\* communicator.sendObservation(obs) is one step of explore(): it returns a
\* Decision, or waitForAction throws (timeout, or an action.json that does not parse)
RequestErrors == {"decision_timeout", "malformed_decision"}

\* lines 1103-1108: the first decision request
SendFirst ==
    /\ xpc = "send_first"
    /\ \/ /\ Len(session.actions) < MaxDecisions
          /\ \E d \in Decisions :
              /\ session' = [session EXCEPT !.actions = Push(@, Recorded(d))]
              /\ currentAction' = d
          /\ currentStep' = 2
          /\ xpc' = "loop"
          /\ UNCHANGED cause
       \/ /\ \E e \in RequestErrors : cause' = e
          /\ xpc' = "catch"
          /\ UNCHANGED <<session, currentAction, currentStep>>
    /\ UNCHANGED <<lastAction, actionRepeatCount, goalMaxSteps, actionsToExecute,
                   stopOnError, batchIdx, batchGhosts, previousActions, sessionFile>>

\* lines 1110-1133 and 1195-1196: the loop condition, the terminal decisions,
\* and the choice between a batch and a new request
LoopHead ==
    /\ xpc = "loop"
    /\ IF ~(currentStep <= Budget(goalMaxSteps))
       THEN /\ xpc' = "after_loop"
            /\ UNCHANGED <<session, cause, actionsToExecute, stopOnError, batchIdx,
                           batchGhosts>>
       ELSE IF currentAction.decision = "goal_achieved"
       THEN /\ session' = [session EXCEPT !.status = "completed"]
            /\ cause' = "goal_achieved"
            /\ xpc' = "after_loop"
            /\ UNCHANGED <<actionsToExecute, stopOnError, batchIdx, batchGhosts>>
       ELSE IF currentAction.decision \in {"abort", "stuck"}
       THEN /\ session' = [session EXCEPT !.status = "failed"]
            /\ cause' = "abort_decision"
            /\ xpc' = "after_loop"
            /\ UNCHANGED <<actionsToExecute, stopOnError, batchIdx, batchGhosts>>
       ELSE /\ actionsToExecute' = ActionsToExecute(currentAction)
            /\ IF Len(ActionsToExecute(currentAction)) > 0
               THEN /\ stopOnError' = StopOnError(currentAction)
                    /\ batchIdx' = 0
                    /\ batchRan' = TRUE
                    /\ xpc' = "batch"
               ELSE /\ batchRan' = FALSE
                    /\ xpc' = "rerequest"
                    /\ UNCHANGED <<stopOnError, batchIdx>>
            /\ iterObs' = 0
            /\ iterReq' = 0
            /\ attemptedCount' = 0
            /\ firstFailed' = 0
            /\ attempted' = << >>
            /\ failures' = << >>
            /\ UNCHANGED <<session, cause>>
    /\ UNCHANGED <<lastAction, actionRepeatCount, goalMaxSteps, currentStep, currentAction,
                   previousActions, sessionFile>>

\* the batch loop left after any failed action
BreaksBatch_Always(stop) == TRUE

\* after a failed action (lines 1148-1153): TRUE when the batch loop is left
BreaksBatch(stop) == stop

\* lines 1143-1154: what the batch loop does once the awaited execute(a) has
\* returned (ok) or thrown
BatchOutcome(a, ok) ==
    /\ attemptedCount' = attemptedCount + 1
    /\ attempted' = Append(attempted, batchIdx + 1)
    /\ IF ok
       THEN /\ previousActions' = Append(previousActions, a)
            /\ currentStep' = currentStep + 1
            /\ batchIdx' = batchIdx + 1
            /\ xpc' = IF batchIdx + 1 < Len(actionsToExecute) THEN "batch" ELSE "capture"
            /\ UNCHANGED <<firstFailed, failures>>
       ELSE /\ firstFailed' = IF firstFailed = 0 THEN batchIdx + 1 ELSE firstFailed
            /\ failures' = Append(failures, batchIdx + 1)
            /\ UNCHANGED <<currentStep, previousActions>>
            /\ IF BreaksBatch(stopOnError)
               THEN /\ xpc' = "capture"
                    /\ UNCHANGED batchIdx
               ELSE /\ batchIdx' = batchIdx + 1
                    /\ xpc' = IF batchIdx + 1 < Len(actionsToExecute)
                              THEN "batch" ELSE "capture"
    /\ UNCHANGED <<session, goalMaxSteps, currentAction, actionsToExecute, stopOnError,
                   batchRan, iterObs, iterReq, cause, sessionFile>>

\* lines 1135-1155: one iteration of the batch loop
BatchStep ==
    /\ xpc = "batch"
    /\ batchIdx < Len(actionsToExecute)
    /\ \E ok \in BOOLEAN :
        /\ ExecuteInExplore(actionsToExecute[batchIdx + 1], ok)
        /\ BatchOutcome(actionsToExecute[batchIdx + 1], ok)

\* the continuation running on without the promise having settled
Resumes_Unawaited(settled) == TRUE

\* await p: the continuation runs once p has settled
Resumes(settled) == settled

\* line 1142 with execute() followed step by step: the call is made and runs
\* up to its first await (the repetition guard and the entry of the retry loop)
BatchCall ==
    /\ xpc = "batch"
    /\ batchIdx < Len(actionsToExecute)
    /\ ExecuteBegin(actionsToExecute[batchIdx + 1])
    /\ xpc' = "executing"
    /\ UNCHANGED <<session, goalMaxSteps, currentStep, currentAction, actionsToExecute,
                   stopOnError, batchIdx, batchGhosts, cause, previousActions, sessionFile>>

\* lines 1142-1154: the await of execute() ends and the batch loop goes on
\* with the way the call ended
BatchReturn ==
    /\ xpc = "executing"
    /\ Resumes(epc = "idle")
    /\ BatchOutcome(actionsToExecute[batchIdx + 1], callResult.status # "error")
    /\ UNCHANGED execVars

\* lines 1157-1182: the observation after the batch is captured and recorded
CaptureAfterBatch ==
    /\ xpc = "capture"
    /\ \/ /\ session' = [session EXCEPT !.observations =
                             Push(@, PrepareObservation(currentStep, previousActions))]
          /\ iterObs' = iterObs + 1
          /\ xpc' = "send"
          /\ UNCHANGED cause
       \/ /\ xpc' = "catch"
          /\ cause' = "capture_error"
          /\ UNCHANGED <<session, iterObs>>
    /\ UNCHANGED <<lastAction, actionRepeatCount, goalMaxSteps, currentStep, currentAction,
                   actionsToExecute, stopOnError, batchIdx, batchRan, iterReq,
                   attemptedCount, firstFailed, previousActions, attempted, failures,
                   sessionFile>>

\* the new Decision asked for only when the Decision in hand flags a checkpoint
RequestsDecision_OnFlag(d) == d.nextCheckpoint

\* whether the checkpoint after a batch asks for a new Decision (line 1184:
\* always, whatever the nextCheckpoint flag of the Decision in hand)
RequestsDecision(d) == TRUE

\* lines 1184-1205: the decision request after the batch, then the periodic
\* saveSession of line 1205
SendAfterBatch ==
    /\ xpc = "send"
    /\ IF RequestsDecision(currentAction)
       THEN /\ iterReq' = iterReq + 1
            /\ \/ /\ Len(session.actions) < MaxDecisions
                  /\ \E d \in Decisions :
                      /\ session' = [session EXCEPT !.actions = Push(@, Recorded(d))]
                      /\ currentAction' = d
                  /\ sessionFile' = SaveSession(session')
                  /\ xpc' = "loop"
                  /\ UNCHANGED cause
               \/ /\ \E e \in RequestErrors : cause' = e
                  /\ xpc' = "catch"
                  /\ UNCHANGED <<session, currentAction, sessionFile>>
       ELSE /\ sessionFile' = SaveSession(session)
            /\ xpc' = "loop"
            /\ UNCHANGED <<iterReq, session, currentAction, cause>>
    /\ UNCHANGED <<lastAction, actionRepeatCount, goalMaxSteps, currentStep,
                   actionsToExecute, stopOnError, batchIdx, batchRan, iterObs,
                   attemptedCount, firstFailed, previousActions, attempted, failures>>

\* lines 1195-1205: no action in the Decision: the last observation is sent
\* again, then the periodic saveSession of line 1205
ReRequest ==
    /\ xpc = "rerequest"
    /\ iterReq' = iterReq + 1
    /\ \/ /\ Len(session.actions) < MaxDecisions
          /\ \E d \in Decisions :
              /\ session' = [session EXCEPT !.actions = Push(@, Recorded(d))]
              /\ currentAction' = d
          /\ sessionFile' = SaveSession(session')
          /\ xpc' = "loop"
          /\ UNCHANGED cause
       \/ /\ \E e \in RequestErrors : cause' = e
          /\ xpc' = "catch"
          /\ UNCHANGED <<session, currentAction, sessionFile>>
    /\ UNCHANGED <<lastAction, actionRepeatCount, goalMaxSteps, currentStep,
                   actionsToExecute, stopOnError, batchIdx, batchRan, iterObs,
                   attemptedCount, firstFailed, previousActions, attempted, failures>>

\* lines 1208-1211: after the loop
AfterLoop ==
    /\ xpc = "after_loop"
    /\ IF currentStep > Budget(goalMaxSteps)
       THEN /\ session' = [session EXCEPT !.status = "failed"]
            /\ cause' = "budget_exhausted"
       ELSE UNCHANGED <<session, cause>>
    /\ xpc' = "finally"
    /\ UNCHANGED <<lastAction, actionRepeatCount, goalMaxSteps, currentStep, currentAction,
                   actionsToExecute, stopOnError, batchIdx, batchGhosts, previousActions,
                   sessionFile>>

\* lines 1212-1214: the catch block
Catch ==
    /\ xpc = "catch"
    /\ session' = [session EXCEPT !.status = "failed"]
    /\ xpc' = "finally"
    /\ UNCHANGED <<lastAction, actionRepeatCount, goalMaxSteps, currentStep, currentAction,
                   actionsToExecute, stopOnError, batchIdx, batchGhosts, cause,
                   previousActions, sessionFile>>

\* lines 1215-1232: cleanup, the final saveSession (line 1220), then the step
\* counter (line 1221), return
Finally ==
    /\ xpc = "finally"
    /\ sessionFile' = SaveSession(session)
    /\ session' = [session EXCEPT !.currentStep = Len(session.observations)]
    /\ xpc' = "returned"
    /\ UNCHANGED <<lastAction, actionRepeatCount, goalMaxSteps, currentStep, currentAction,
                   actionsToExecute, stopOnError, batchIdx, batchGhosts, cause,
                   previousActions>>

(***************************************************************************)
(* Pilot                                                   pilot.ts:15-126 *)
(***************************************************************************)
\* the steps of a scenario: a plain action, an assert step (action 'assert'
\* with assert_type), an action with expectations; the steps that are not
\* assert steps are flagged observe and all address the same selector; the
\* plain action is one during which a request of the page fails
PilotSteps == <<[action |-> "click", expect |-> FALSE, observe |-> TRUE, logs |-> TRUE],
               [action |-> "assert", expect |-> FALSE, observe |-> FALSE, logs |-> FALSE],
               [action |-> "click", expect |-> TRUE, observe |-> TRUE, logs |-> FALSE]>>
\* the scenarios drawn: the prefixes of one plain step repeated, and of an
\* assert step alternating with either of the other two
ScenarioPatterns ==
    {[i \in 1..MaxScenarioSteps |-> PilotSteps[1]],
     [i \in 1..MaxScenarioSteps |-> IF i % 2 = 1 THEN PilotSteps[3] ELSE PilotSteps[2]],
     [i \in 1..MaxScenarioSteps |-> IF i % 2 = 1 THEN PilotSteps[2] ELSE PilotSteps[1]]}
Scenarios == {SubSeq(sc, 1, n) : sc \in ScenarioPatterns, n \in 1..MaxScenarioSteps}
Configs == [stopOnFirstFailure : BOOLEAN, retryFailedSteps : 0..MaxStepRetries,
            screenshotOnError : BOOLEAN]
NoReport == [status |-> "none", steps |-> << >>, skipped |-> 0,
             consoleErrors |-> 0, networkErrors |-> 0]

PilotInit ==
    /\ ppc = "start"
    /\ scenario = << >>
    /\ config = [stopOnFirstFailure |-> FALSE, retryFailedSteps |-> 0,
                 screenshotOnError |-> FALSE]
    /\ stepI = 0
    /\ stepAttempt = 0
    /\ stepStatus = "success"
    /\ overallStatus = "passed"
    /\ steps = << >>
    /\ skipped = 0
    /\ executed = << >>
    /\ report = NoReport
    /\ stepFailures = << >>
    /\ stepObservations = << >>

\* config.retryFailedSteps || 0
MaxRetriesOf(cfg) == cfg.retryFailedSteps

\* the actionKey of a scenario step (executor.ts:31)
StepKey(step) ==
    ActionKey([action |-> step.action, selector |-> "#a", value |-> Undefined])

\* what the page logs while an action runs: nothing, or a request that fails,
\* which logs a response with status 500 and the console error the browser
\* prints for it (observer.ts:22-57)
PageEvents == {"none", "failed_request"}
EventsAt(logs, nets) == IF Len(logs) < MaxEvents THEN PageEvents ELSE {"none"}
\* what the page logs while the action of a step runs
EventOf(step, logs) ==
    IF step.logs /\ Len(logs) < MaxEvents THEN "failed_request" ELSE "none"
ConsoleAfter(logs, ev) ==
    IF ev = "failed_request"
    THEN Append(logs, [id |-> Len(logs) + 1, type |-> "error"]) ELSE logs
NetworkAfter(nets, ev) ==
    IF ev = "failed_request"
    THEN Append(nets, [id |-> Len(nets) + 1, status |-> 500]) ELSE nets

\* filter(l => l.type === 'error').length and filter(r => r.status >= 400).length
ConsoleErrorCount(logs) == Cardinality({k \in 1..Len(logs) : logs[k].type = "error"})
NetworkErrorCount(nets) == Cardinality({k \in 1..Len(nets) : nets[k].status >= 400})

\* observer.hasNewErrors() (observer.ts:219-229)
HasNewErrors(logs, nets, cursor) ==
    \/ ConsoleErrorCount(Slice(logs, cursor.console)) > 0
    \/ NetworkErrorCount(Slice(nets, cursor.network)) > 0

\* the deltas of the Observation captureObservation returns (observer.ts:102-103)
Observed(logs, nets, cursor) ==
    [newConsoleLogs |-> Slice(logs, cursor.console),
     newNetworkRequests |-> Slice(nets, cursor.network)]
\* {} as any (lines 103, 110): no delta is read from it
EmptyObservation == [newConsoleLogs |-> << >>, newNetworkRequests |-> << >>]

\* how the try block of one attempt can end without throwing (lines 58-95):
\* all checks pass, a validation warning is raised (73-80), the assertion of an
\* assert step fails (61-66), the expectations of the step fail (68-71)
TryOutcomes(step) ==
    {"success", "warning"}
        \cup (IF step.action = "assert" THEN {"assert_failed"} ELSE {})
        \cup (IF step.expect THEN {"expect_failed"} ELSE {})

\* the StepResult entries pushed for the steps after 0-based index i (lines 108-111)
RECURSIVE SkippedFrom(_, _)
SkippedFrom(j, n) ==
    IF j > n THEN << >>
    ELSE <<[step |-> j, status |-> "skipped"]>> \o SkippedFrom(j + 1, n)

\* Pilot.execute(scenario), lines 31-43: the locals, the launch
PilotExecute ==
    /\ ppc = "start"
    /\ \E sc \in Scenarios : scenario' = sc
    /\ \E cfg \in Configs : config' = cfg
    /\ ppc' = "for"
    /\ UNCHANGED <<stepI, stepAttempt, stepStatus, overallStatus, steps, skipped,
                   executed, report, stepFailures, stepObservations>>
    /\ UNCHANGED <<lastAction, actionRepeatCount, consoleLogs, networkRequests,
                   lastObservationIndex>>

\* lines 44-55: the head of the step loop and the locals of one step
PilotStep ==
    /\ ppc = "for"
    /\ IF stepI < Len(scenario)
       THEN /\ stepStatus' = "success"
            /\ stepAttempt' = 0
            /\ stepFailures' = << >>
            /\ ppc' = "attempt"
       ELSE /\ ppc' = "report"
            /\ UNCHANGED <<stepStatus, stepAttempt, stepFailures>>
    /\ UNCHANGED <<scenario, config, stepI, overallStatus, steps, skipped, executed,
                   report, stepObservations>>
    /\ UNCHANGED <<lastAction, actionRepeatCount, consoleLogs, networkRequests,
                   lastObservationIndex>>

\* lines 55-95: an attempt whose try block runs to its break: execute() passes
\* the repetition guard and returns, the observation is captured, an assertion
\* or the expectations are awaited (the page can log meanwhile), the step is
\* checked and its result is pushed; the page is taken to log during the
\* awaited expectations only
PilotTry ==
    /\ ppc = "attempt"
    /\ LET step == scenario[stepI + 1]
           g == RepetitionGuard(lastAction, actionRepeatCount, StepKey(step)) IN
        /\ ~g.rejected
        /\ lastAction' = g.lastAction
        /\ actionRepeatCount' = g.count
        /\ \E ev \in {EventOf(step, consoleLogs)} :
            LET logs1 == ConsoleAfter(consoleLogs, ev)
                nets1 == NetworkAfter(networkRequests, ev)
                obs == Observed(logs1, nets1, lastObservationIndex)
                cursor == NextCursor(logs1, nets1) IN
            \E late \in (IF step.expect
                         THEN EventsAt(logs1, nets1) ELSE {"none"}) :
            \E o \in TryOutcomes(step) :
                LET logs2 == ConsoleAfter(logs1, late)
                    nets2 == NetworkAfter(nets1, late)
                    checked == IF o \in {"assert_failed", "expect_failed"}
                               THEN "failed" ELSE o
                    st == IF /\ checked = "success"
                             /\ step.observe
                             /\ HasNewErrors(logs2, nets2, cursor)
                          THEN "warning" ELSE checked IN
                /\ consoleLogs' = logs2
                /\ networkRequests' = nets2
                /\ lastObservationIndex' = cursor
                /\ stepStatus' = st
                /\ overallStatus' =
                       IF st = "failed" THEN "failed"
                       ELSE IF st = "warning" /\ overallStatus = "passed" THEN "warning"
                       ELSE overallStatus
                /\ steps' = Append(steps, [step |-> stepI + 1, status |-> st])
                /\ stepObservations' =
                       Append(stepObservations,
                              [step |-> stepI + 1, observations |-> obs,
                               caused |-> ev # "none"])
    /\ executed' = Append(executed, stepI + 1)
    /\ ppc' = "after_attempts"
    /\ UNCHANGED <<scenario, config, stepI, stepAttempt, skipped, report, stepFailures>>

\* lines 57 and 96-113: execute() throws (rejected by the repetition guard, or
\* failed at the driver): retry while retries remain, else the failed result
\* is pushed with the observation captured in the catch block, or with {} when
\* that capture throws, after the capture of screenshotOnError, and, with
\* stopOnFirstFailure, a skipped result for every later step
PilotCatch ==
    /\ ppc = "attempt"
    /\ executed' = Append(executed, stepI + 1)
    /\ LET step == scenario[stepI + 1]
           g == RepetitionGuard(lastAction, actionRepeatCount, StepKey(step)) IN
        /\ lastAction' = g.lastAction
        /\ actionRepeatCount' = g.count
        /\ \E thrown \in (IF g.rejected THEN {"guard"} ELSE {"action"}) :
           \E ev \in (IF g.rejected THEN {"none"}
                      ELSE {EventOf(step, consoleLogs)}) :
            LET logs1 == ConsoleAfter(consoleLogs, ev)
                nets1 == NetworkAfter(networkRequests, ev) IN
            /\ consoleLogs' = logs1
            /\ networkRequests' = nets1
            /\ stepFailures' = Append(stepFailures, thrown)
            /\ IF stepAttempt < MaxRetriesOf(config)
               THEN /\ stepAttempt' = stepAttempt + 1
                    /\ UNCHANGED <<ppc, stepStatus, overallStatus, steps, skipped,
                                   stepObservations, lastObservationIndex>>
               ELSE /\ stepStatus' = "failed"
                    /\ overallStatus' = "failed"
                    /\ steps' = Append(steps, [step |-> stepI + 1, status |-> "failed"])
                                   \o (IF config.stopOnFirstFailure
                                       THEN SkippedFrom(stepI + 2, Len(scenario))
                                       ELSE << >>)
                    /\ skipped' = IF config.stopOnFirstFailure
                                  THEN skipped + (Len(scenario) - (stepI + 1))
                                  ELSE skipped
                    /\ \E shot \in {config.screenshotOnError} :
                       \E captured \in BOOLEAN :
                        LET cursor1 == IF shot THEN NextCursor(logs1, nets1)
                                       ELSE lastObservationIndex IN
                        /\ stepObservations' =
                               Append(stepObservations,
                                      [step |-> stepI + 1,
                                       observations |->
                                           IF captured THEN Observed(logs1, nets1, cursor1)
                                           ELSE EmptyObservation,
                                       caused |-> ev # "none"])
                        /\ lastObservationIndex' =
                               IF captured THEN NextCursor(logs1, nets1) ELSE cursor1
                    /\ ppc' = "after_attempts"
                    /\ UNCHANGED stepAttempt
    /\ UNCHANGED <<scenario, config, stepI, report>>

\* lines 115-116 and 44: leave the step loop after a failed step under
\* stopOnFirstFailure, else go on with the next step
PilotNext ==
    /\ ppc = "after_attempts"
    /\ IF stepStatus = "failed" /\ config.stopOnFirstFailure
       THEN ppc' = "report" /\ UNCHANGED stepI
       ELSE ppc' = "for" /\ stepI' = stepI + 1
    /\ UNCHANGED <<scenario, config, stepAttempt, stepStatus, overallStatus, steps,
                   skipped, executed, stepFailures, stepObservations>>
    /\ UNCHANGED report
    /\ UNCHANGED <<lastAction, actionRepeatCount, consoleLogs, networkRequests,
                   lastObservationIndex>>

\* the number of results of a report with the given status (lines 144-147)
CountStatus(results, st) == Cardinality({k \in 1..Len(results) : results[k].status = st})

\* lines 117-125 and 143-158: cleanup, generateReport, return
PilotReport ==
    /\ ppc = "report"
    /\ report' =
           [status |-> overallStatus, steps |-> steps,
            skipped |-> CountStatus(steps, "skipped"),
            consoleErrors |->
                ConsoleErrorCount(Flatten([k \in 1..Len(stepObservations) |->
                    stepObservations[k].observations.newConsoleLogs])),
            networkErrors |->
                NetworkErrorCount(Flatten([k \in 1..Len(stepObservations) |->
                    stepObservations[k].observations.newNetworkRequests]))]
    /\ ppc' = "reported"
    /\ UNCHANGED <<scenario, config, stepI, stepAttempt, stepStatus, overallStatus,
                   steps, skipped, executed, stepFailures, stepObservations>>
    /\ UNCHANGED <<lastAction, actionRepeatCount, consoleLogs, networkRequests,
                   lastObservationIndex>>

(***************************************************************************)
(* ActionExecutor.click                              executor.ts:907-927   *)
(***************************************************************************)
\* the alternatives of the target string "sel1, sel2"
Alternatives == <<"sel1", "sel2">>

\* an element of the page: the alternative that selects it (none: neither
\* does), whether it is visible, whether it is disabled
Elements == [matches : {"sel1", "sel2", "none"}, visible : BOOLEAN, disabled : BOOLEAN]
Doms == UNION {[1..n -> Elements] : n \in 0..MaxDomSize}

\* action.selector is the string "sel1, sel2": with two CSS alternatives, or
\* with a first alternative of another selector engine ("text=sel1, sel2", as
\* in the selector fix of the workflow guide); action.force
ClickTargets == [alternatives : {Alternatives}, engine : {"css", "text"}, force : BOOLEAN]
NoClick == [status |-> "none", error |-> NoError, element |-> 0]

ClickInit ==
    /\ clickPc = "idle"
    /\ dom = << >>
    /\ clickTarget = [alternatives |-> Alternatives, engine |-> "css", force |-> FALSE]
    /\ clickOutcome = NoClick

\* this.page.locator(action.selector), line 909: the driver is handed the whole
\* target string as one selector. A CSS string with commas is a selector list
\* and selects every element that any alternative selects; after an engine
\* prefix the rest of the string, commas included, is the body of that engine
\* and selects none of the elements either alternative selects.
Locator(t, d) ==
    IF t.engine = "css"
    THEN {i \in 1..Len(d) : \E k \in 1..Len(t.alternatives) : d[i].matches = t.alternatives[k]}
    ELSE {}

\* .first(), line 909: the first selected element in document order, 0 if none
First(S) == IF S = {} THEN 0 ELSE CHOOSE i \in S : \A j \in S : i <= j

\* click(action), lines 907-927, on page d
ClickResult(t, d) ==
    LET element == First(Locator(t, d)) IN
    IF element = 0 \/ ~d[element].visible
    THEN [status |-> "error", error |-> "Timeout", element |-> 0]
    ELSE IF d[element].disabled /\ ~t.force
    THEN [status |-> "error", error |-> "Element is disabled", element |-> 0]
    ELSE [status |-> "success", error |-> NoError, element |-> element]

\* executeOnce dispatches a click action on some page (lines 142-143)
ClickCall ==
    /\ clickPc = "idle"
    /\ \E d \in Doms : dom' = d
    /\ \E t \in ClickTargets : clickTarget' = t
    /\ clickPc' = "called"
    /\ UNCHANGED clickOutcome

\* click(action), lines 907-927
Click ==
    /\ clickPc = "called"
    /\ clickOutcome' = ClickResult(clickTarget, dom)
    /\ clickPc' = "done"
    /\ UNCHANGED <<dom, clickTarget>>

(***************************************************************************)
(* EdgeCaseHandler                              edge-case-handler.ts:24-555 *)
(***************************************************************************)
\* const maxAttempts = 5 (line 39)
maxAttempts == 5
\* this.totalAICost += 0.02 (line 413), in hundredths
AI_CHARGE == 2

\* Obstacle.type, as far as detectCommonObstacles produces it, in the order
\* in which it looks for them (lines 92-174)
ObstacleTypes == <<"cookie-consent", "login", "modal", "popup", "captcha">>
TypeSet == {ObstacleTypes[i] : i \in 1..Len(ObstacleTypes)}

\* what the page offers against an obstacle it shows: a button the rules find
\* whose click removes the obstacle, leaves it, or throws; no button, and the
\* Escape key removes the obstacle or not
Affordances == {"button_dismisses", "button_inert", "button_throws",
                "escape_dismisses", "stuck"}
\* the rules press no key on a cookie banner and look at nothing on a CAPTCHA
AffordancesOf(t) ==
    IF t = "captcha" THEN {"stuck"}
    ELSE IF t = "cookie-consent" THEN Affordances \ {"escape_dismisses"}
    ELSE Affordances
\* a page with a cookie banner, a login prompt, two modals one above the
\* other (the close button of the upper one uncovers the lower one) and a
\* popup, each with a button that closes it
StackedPage ==
    [t \in TypeSet |-> IF t = "captcha" THEN "absent"
                       ELSE IF t = "modal" THEN "button_closes_top"
                       ELSE "button_dismisses"]
Pages ==
    {pg \in [TypeSet -> Affordances \cup {"absent"}] :
        /\ \A t \in TypeSet : pg[t] # "absent" => pg[t] \in AffordancesOf(t)
        /\ Cardinality({t \in TypeSet : pg[t] # "absent"}) <= MaxPresent}
    \cup {StackedPage}
NoPage == [t \in TypeSet |-> "absent"]

\* FormTestConfig (form/types.ts:184-195): maxAICost in hundredths, 0 when
\* omitted; credentials present or not
AIModes == {"disabled", "fallback", "hybrid", "always"}
HandlerConfigs ==
    [aiMode : AIModes,
     maxAICost : {0} \cup {k * AI_CHARGE : k \in 1..MaxBudgetCharges},
     credentials : BOOLEAN]

ObstInit ==
    /\ hpc = "idle"
    /\ hconfig = [aiMode |-> "disabled", maxAICost |-> 0, credentials |-> FALSE]
    /\ apiKey = FALSE
    /\ attemptCount = 0
    /\ obstacle = "none"
    /\ aiCallsCount = 0
    /\ totalAICost = 0
    /\ hresult = "none"
    /\ page = NoPage
    /\ page0 = NoPage
    /\ detections = << >>
    /\ rulesTried = "no"
    /\ aiConsulted = FALSE

\* detectCommonObstacles (lines 90-178): the first type, in the order of the
\* checks, that the page shows; detectWithAI (381-386) finds nothing
DetectCommonObstacles(pg) ==
    IF \E i \in 1..Len(ObstacleTypes) : pg[ObstacleTypes[i]] # "absent"
    THEN ObstacleTypes[CHOOSE i \in 1..Len(ObstacleTypes) :
                           /\ pg[ObstacleTypes[i]] # "absent"
                           /\ \A j \in 1..(i - 1) : pg[ObstacleTypes[j]] = "absent"]
    ELSE "none"

\* handleCookieConsent (230-252): a button found is clicked and true returned;
\* a click that throws is not caught
HandleCookieConsent(aff) ==
    IF aff = "button_dismisses" THEN [handled |-> "true", gone |-> TRUE]
    ELSE IF aff = "button_inert" THEN [handled |-> "true", gone |-> FALSE]
    ELSE IF aff = "button_throws" THEN [handled |-> "threw", gone |-> FALSE]
    ELSE [handled |-> "false", gone |-> FALSE]

\* skipLogin (311-345) and handleGenericModal (350-376): a button found is
\* clicked and true returned; without one Escape is pressed and the result is
\* whether the obstacle is gone
CloseOrEscape(aff) ==
    IF aff = "button_dismisses" THEN [handled |-> "true", gone |-> TRUE]
    ELSE IF aff \in {"button_inert", "button_closes_top"} THEN [handled |-> "true", gone |-> FALSE]
    ELSE IF aff = "button_throws" THEN [handled |-> "threw", gone |-> FALSE]
    ELSE IF aff = "escape_dismisses" THEN [handled |-> "true", gone |-> TRUE]
    ELSE [handled |-> "false", gone |-> FALSE]

\* fillLoginForm (275-306): the submit button is clicked inside a try whose
\* catch returns false
FillLoginForm(aff) ==
    IF aff = "button_dismisses" THEN [handled |-> "true", gone |-> TRUE]
    ELSE IF aff = "button_inert" THEN [handled |-> "true", gone |-> FALSE]
    ELSE [handled |-> "false", gone |-> FALSE]

\* the switch without its cookie-consent case
HandleWithRules_NoCookieCase(t, aff, creds) ==
    IF t = "login" THEN (IF creds THEN FillLoginForm(aff) ELSE CloseOrEscape(aff))
    ELSE IF t \in {"modal", "popup"} THEN CloseOrEscape(aff)
    ELSE [handled |-> "false", gone |-> FALSE]

\* handleWithRules (205-225) with handleLoginModal (258-270)
HandleWithRules(t, aff, creds) ==
    IF t = "cookie-consent" THEN HandleCookieConsent(aff)
    ELSE IF t = "login" THEN (IF creds THEN FillLoginForm(aff) ELSE CloseOrEscape(aff))
    ELSE IF t \in {"modal", "popup"} THEN CloseOrEscape(aff)
    ELSE [handled |-> "false", gone |-> FALSE]

\* the rules skipped in every mode
RulesFirst_Never(mode) == FALSE

\* line 185: the rules are tried first unless the mode is 'always'
RulesFirst(mode) == mode # "always"

\* line 194: the AI is the fallback unless the mode is 'disabled'
AIFallback(mode) == mode # "disabled"

\* the budget taken as exceeded only above the limit
BudgetExceeded_Strict(max, cost) == max # 0 /\ cost > max

\* line 393: this.config.maxAICost && this.totalAICost >= this.config.maxAICost
BudgetExceeded(max, cost) == max # 0 /\ cost >= max

\* how a decision request and the execution of its steps can end (400-429)
AIOutcomes == {"no_decision", "steps_ok", "step_threw_no_fallback",
               "step_threw_fallback_ok", "step_threw_fallback_threw"}

\* handleObstacles() is called (line 37) on a page, with a config
HandleObstacles ==
    /\ hpc = "idle"
    /\ \E c \in HandlerConfigs, k \in BOOLEAN, pg \in Pages :
        /\ hconfig' = c
        /\ apiKey' = k
        /\ page' = pg
        /\ page0' = pg
    /\ attemptCount' = 0
    /\ hpc' = "detect"
    /\ UNCHANGED <<obstacle, aiCallsCount, totalAICost, hresult, detections, rulesTried,
                   aiConsulted>>

\* lines 41-49 and 67-68: the loop condition and the detection
DetectObstacle ==
    /\ hpc = "detect"
    /\ IF ~(attemptCount < maxAttempts)
       THEN /\ hresult' = "false"
            /\ hpc' = "done"
            /\ UNCHANGED <<obstacle, detections>>
       ELSE /\ obstacle' = DetectCommonObstacles(page)
            /\ IF obstacle' = "none"
               THEN /\ hresult' = "true"
                    /\ hpc' = "done"
                    /\ UNCHANGED detections
               ELSE /\ detections' = Append(detections, obstacle')
                    /\ hpc' = "handle"
                    /\ UNCHANGED hresult
    /\ rulesTried' = "no"
    /\ UNCHANGED <<hconfig, apiKey, attemptCount, aiCallsCount, totalAICost, page, page0,
                   aiConsulted>>

\* handleObstacle (183-200) up to the call of handleWithAI, and lines 52-57
HandleObstacle ==
    /\ hpc = "handle"
    /\ LET r == IF RulesFirst(hconfig.aiMode)
                THEN HandleWithRules(obstacle, page[obstacle], hconfig.credentials)
                ELSE [handled |-> "skipped", gone |-> FALSE] IN
       /\ rulesTried' = IF r.handled = "skipped" THEN "no"
                        ELSE IF r.handled = "true" THEN "handled" ELSE "failed"
       /\ page' = IF r.gone THEN [page EXCEPT ![obstacle] = "absent"]
                  ELSE IF r.handled = "true" /\ page[obstacle] = "button_closes_top"
                  THEN [page EXCEPT ![obstacle] = "button_dismisses"]
                  ELSE page
       /\ IF r.handled = "true"
          THEN /\ hpc' = "settle"
               /\ UNCHANGED <<hresult, aiConsulted>>
          ELSE IF r.handled = "threw"
          THEN /\ hresult' = "rejected"
               /\ hpc' = "done"
               /\ UNCHANGED aiConsulted
          ELSE IF AIFallback(hconfig.aiMode)
          THEN /\ aiConsulted' = TRUE
               /\ hpc' = "ai"
               /\ UNCHANGED hresult
          ELSE /\ hresult' = "false"
               /\ hpc' = "done"
               /\ UNCHANGED aiConsulted
    /\ UNCHANGED <<hconfig, apiKey, attemptCount, obstacle, aiCallsCount, totalAICost,
                   page0, detections>>

\* handleWithAI (391-401) up to the request: the budget check, then
\* getAIDecision, which throws before any request when no key is set (437-442)
HandleWithAI ==
    /\ hpc = "ai"
    /\ IF BudgetExceeded(hconfig.maxAICost, totalAICost) \/ ~apiKey
       THEN /\ hresult' = "false"
            /\ hpc' = "done"
       ELSE /\ hpc' = "ai_decision"
            /\ UNCHANGED hresult
    /\ UNCHANGED <<hconfig, apiKey, attemptCount, obstacle, aiCallsCount, totalAICost,
                   page, page0, detections, rulesTried, aiConsulted>>

\* getAIDecision (444-513) answers or fails, and lines 403-429: the steps of
\* the decision are executed, the cost is counted after them; a step that
\* throws leads to the fallback steps, if the decision has any
GetAIDecision ==
    /\ hpc = "ai_decision"
    /\ \E out \in AIOutcomes, gone \in BOOLEAN :
        /\ page' = IF gone /\ out \in {"steps_ok", "step_threw_fallback_ok"}
                   THEN [page EXCEPT ![obstacle] = "absent"] ELSE page
        /\ IF out = "steps_ok"
           THEN /\ aiCallsCount' = aiCallsCount + 1
                /\ totalAICost' = totalAICost + AI_CHARGE
           ELSE UNCHANGED <<aiCallsCount, totalAICost>>
        /\ IF out \in {"steps_ok", "step_threw_fallback_ok"}
           THEN /\ hpc' = "settle"
                /\ UNCHANGED hresult
           ELSE /\ hresult' = IF out = "step_threw_fallback_threw" THEN "rejected"
                              ELSE "false"
                /\ hpc' = "done"
    /\ UNCHANGED <<hconfig, apiKey, attemptCount, obstacle, page0, detections,
                   rulesTried, aiConsulted>>

\* lines 59-64: the obstacle counts as cleared and the page settles
Settle ==
    /\ hpc = "settle"
    /\ attemptCount' = attemptCount + 1
    /\ hpc' = "detect"
    /\ UNCHANGED <<hconfig, apiKey, obstacle, aiCallsCount, totalAICost, hresult, page,
                   page0, detections, rulesTried, aiConsulted>>

(***************************************************************************)
(* Concurrent sessions            executor.ts:1065-1074, 1238-1259; part_001 *)
(***************************************************************************)
Explorers == 1..MaxSessions
\* options.outputDir || path.join(process.cwd(), 'fe-pilot-sessions')
OutputDirs == {"fe-pilot-sessions", "custom"}
\* path.join(outputDir, `exploration-${Date.now()}`)
SessionDirOf(outputDir, t) == [outputDir |-> outputDir, sessionId |-> t]
SessionDirs == {SessionDirOf(o, t) : o \in OutputDirs, t \in 0..MaxClock}
NoDir == [outputDir |-> "", sessionId |-> -1]

MultiInit ==
    /\ now = 0
    /\ mpc = [e \in Explorers |-> "new"]
    /\ sessionDir = [e \in Explorers |-> NoDir]
    /\ existing = {}
    /\ observationOf = [d \in SessionDirs |-> 0]
    /\ actionFor = [d \in SessionDirs |-> 0]
    /\ consumed = [e \in Explorers |-> << >>]

\* a millisecond passes
Tick ==
    /\ now < MaxClock
    /\ now' = now + 1
    /\ UNCHANGED <<mpc, sessionDir, existing, observationOf, actionFor, consumed>>

\* createSession (1238-1259): the directory is named after the current
\* millisecond and made only if it does not exist
CreateSession(e) ==
    /\ mpc[e] = "new"
    /\ \E o \in OutputDirs :
        /\ sessionDir' = [sessionDir EXCEPT ![e] = SessionDirOf(o, now)]
        /\ existing' = existing \cup {SessionDirOf(o, now)}
    /\ mpc' = [mpc EXCEPT ![e] = "running"]
    /\ UNCHANGED <<now, observationOf, actionFor, consumed>>

\* sendObservation (part_001:90-99) of session e: observation.json of its
\* directory is overwritten
SessionSends(e) ==
    /\ mpc[e] = "running"
    /\ observationOf' = [observationOf EXCEPT ![sessionDir[e]] = e]
    /\ mpc' = [mpc EXCEPT ![e] = "waiting"]
    /\ UNCHANGED <<now, sessionDir, existing, actionFor, consumed>>

\* the decision-maker answers the observation it finds in a directory
DecisionWritten(d) ==
    /\ d \in existing
    /\ observationOf[d] # 0
    /\ actionFor[d] = 0
    /\ actionFor' = [actionFor EXCEPT ![d] = observationOf[d]]
    /\ UNCHANGED <<now, mpc, sessionDir, existing, observationOf, consumed>>

\* waitForAction (part_001:144-159) of session e: action.json of its
\* directory is read and deleted
SessionReads(e) ==
    /\ mpc[e] = "waiting"
    /\ actionFor[sessionDir[e]] # 0
    /\ consumed' = [consumed EXCEPT ![e] = Append(@, actionFor[sessionDir[e]])]
    /\ actionFor' = [actionFor EXCEPT ![sessionDir[e]] = 0]
    /\ mpc' = [mpc EXCEPT ![e] = "done"]
    /\ UNCHANGED <<now, sessionDir, existing, observationOf>>

(***************************************************************************)
(* Observer: the URL of the page                 observer.ts:15, 59-61, 91-113 *)
(***************************************************************************)
UrlInit ==
    /\ pageUrl = "about:blank"
    /\ urlHistory = << >>
    /\ urlObservations = << >>

\* page.on('framenavigated'), lines 59-61: the main frame has navigated
FrameNavigated ==
    /\ Len(urlHistory) < MaxEvents
    /\ \E u \in Urls :
        /\ pageUrl' = u
        /\ urlHistory' = Append(urlHistory, u)
    /\ UNCHANGED urlObservations

\* this.urlHistory[this.urlHistory.length - 2] || this.page.url() (line 93)
UrlBefore(history, url) ==
    IF Len(history) >= 2 THEN history[Len(history) - 1] ELSE url

\* captureObservation, lines 93-94 and 111
CaptureUrls ==
    /\ Len(urlObservations) < MaxCaptures
    /\ urlObservations' =
           Append(urlObservations,
                  [urlBefore |-> UrlBefore(urlHistory, pageUrl),
                   urlAfter |-> pageUrl,
                   urlChanged |-> UrlBefore(urlHistory, pageUrl) # pageUrl])
    /\ UNCHANGED <<pageUrl, urlHistory>>

(***************************************************************************)
(* ActionExecutor.fillField                             executor.ts:208-343 *)
(***************************************************************************)
\* strings as sequences of characters
Red == <<"R", "e", "d">>
red == <<"r", "e", "d">>
Re == <<"R", "e">>
Blue == <<"B", "l", "u", "e">>
blue == <<"b", "l", "u", "e">>
Empty == << >>
UndefinedText == <<Undefined>>

\* String.prototype.toLowerCase
LowerChar(c) == IF c = "R" THEN "r" ELSE IF c = "B" THEN "b" ELSE c
ToLowerCase(str) == [i \in 1..Len(str) |-> LowerChar(str[i])]
\* String.prototype.includes
Includes(str, sub) ==
    \E i \in 0..(Len(str) - Len(sub)) : SubSeq(str, i + 1, i + Len(sub)) = sub

\* a || b on strings
OrElse(a, b) == IF a = UndefinedText \/ a = Empty THEN b ELSE a

\* the <option>s of a select: text and value attribute
OptionChoices == {[text |-> Red, value |-> red], [text |-> Blue, value |-> blue],
                  [text |-> Red, value |-> Empty]}
RECURSIVE SeqsUpTo(_, _)
SeqsUpTo(S, n) ==
    IF n = 0 THEN {<< >>}
    ELSE SeqsUpTo(S, n - 1)
         \cup {Append(q, x) : q \in {r \in SeqsUpTo(S, n - 1) : Len(r) = n - 1}, x \in S}

\* the fields a selector can resolve to
FieldElements ==
    [type : {"text"}, disabled : BOOLEAN, readonly : BOOLEAN, hidden : BOOLEAN,
     options : {<< >>}, value : {Empty}]
    \cup [type : {"select"}, disabled : BOOLEAN, readonly : {FALSE}, hidden : BOOLEAN,
          options : SeqsUpTo(OptionChoices, MaxOptions), value : {Empty}]

\* the fill_field actions (types/index.ts:65-106)
FillActions ==
    [selector : Selectors, value : {UndefinedText, Red, red, Re, <<"x">>},
     option : {UndefinedText, Blue}, force : BOOLEAN]

NoFillAction == [selector |-> Undefined, value |-> UndefinedText, option |-> UndefinedText,
                 force |-> FALSE]
NoElement == [type |-> "", disabled |-> FALSE, readonly |-> FALSE, hidden |-> FALSE,
              options |-> << >>, value |-> Empty]
NoFieldInfo == [type |-> "", disabled |-> FALSE, readonly |-> FALSE, hidden |-> FALSE,
                options |-> << >>]

FillInit ==
    /\ fpc = "idle"
    /\ fillAction = NoFillAction
    /\ fieldElement = NoElement
    /\ fieldInfo = NoFieldInfo
    /\ fillResult = "none"
    /\ appliedBy = "none"

\* lines 293-298: the texts of the options that have a value
RECURSIVE OptionTexts(_)
OptionTexts(opts) ==
    IF opts = << >> THEN << >>
    ELSE IF Head(opts).value # Empty
         THEN <<OrElse(Head(opts).text, Head(opts).value)>> \o OptionTexts(Tail(opts))
         ELSE OptionTexts(Tail(opts))

\* the actionability checks of the driver: fill() waits for a visible,
\* enabled, editable element; selectOption() for a visible, enabled one
Editable(el) == ~el.disabled /\ ~el.readonly /\ ~el.hidden
Selectable(el) == ~el.disabled /\ ~el.hidden

\* lines 217-229: the field is skipped
Skipped(info, force) == (info.disabled \/ info.readonly \/ info.hidden) /\ ~force

\* fillField is called (208-214)
FillField ==
    /\ fpc = "idle"
    /\ \E a \in FillActions, el \in FieldElements :
        /\ fillAction' = a
        /\ fieldElement' = el
        /\ IF a.selector = Undefined
              \/ (a.value = UndefinedText /\ a.option = UndefinedText)
           THEN /\ fillResult' = "threw"
                /\ fpc' = "done"
           ELSE /\ fpc' = "info"
                /\ UNCHANGED fillResult
    /\ UNCHANGED <<fieldInfo, appliedBy>>

\* getFieldInfo (285-312), the skips (217-229) and the switch (232-281)
GetFieldInfo ==
    /\ fpc = "info"
    /\ fieldInfo' = [type |-> fieldElement.type, disabled |-> fieldElement.disabled,
                     readonly |-> fieldElement.readonly, hidden |-> fieldElement.hidden,
                     options |-> OptionTexts(fieldElement.options)]
    /\ IF Skipped(fieldInfo', fillAction.force)
       THEN /\ fillResult' = "returned"
            /\ fpc' = "done"
       ELSE /\ fpc' = IF fieldElement.type = "select" THEN "select_label" ELSE "type"
            /\ UNCHANGED fillResult
    /\ UNCHANGED <<fillAction, fieldElement, appliedBy>>

\* smartType (314-320) on action.value!
SmartType ==
    /\ fpc = "type"
    /\ IF fillAction.value # UndefinedText /\ Editable(fieldElement)
       THEN /\ fieldElement' = [fieldElement EXCEPT !.value = fillAction.value]
            /\ appliedBy' = "type"
            /\ fillResult' = "returned"
       ELSE /\ fillResult' = "threw"
            /\ UNCHANGED <<fieldElement, appliedBy>>
    /\ fpc' = "done"
    /\ UNCHANGED <<fillAction, fieldInfo>>

\* action.value || action.option! (line 250)
Wanted == OrElse(fillAction.value, fillAction.option)

\* the option a selectOption() call picks: the first that matches, 0 if none
\* does or the select is not actionable
LabelMatch(el, label) ==
    IF Selectable(el)
    THEN First({k \in 1..Len(el.options) : el.options[k].text = label})
    ELSE 0
ValueMatch(el, str) ==
    IF Selectable(el)
    THEN First({k \in 1..Len(el.options) :
                   el.options[k].value = str \/ el.options[k].text = str})
    ELSE 0

\* selectOption({ label: value }) (325-329)
SelectByLabel ==
    /\ fpc = "select_label"
    /\ LET i == LabelMatch(fieldElement, Wanted) IN
       IF i # 0
       THEN /\ fieldElement' = [fieldElement EXCEPT !.value = fieldElement.options[i].value]
            /\ appliedBy' = "label"
            /\ fillResult' = "returned"
            /\ fpc' = "done"
       ELSE /\ fpc' = "select_value"
            /\ UNCHANGED <<fieldElement, appliedBy, fillResult>>
    /\ UNCHANGED <<fillAction, fieldInfo>>

\* selectOption(value) (330-334): the driver takes the string for a value or
\* a label
SelectByValue ==
    /\ fpc = "select_value"
    /\ LET i == ValueMatch(fieldElement, Wanted) IN
       IF i # 0
       THEN /\ fieldElement' = [fieldElement EXCEPT !.value = fieldElement.options[i].value]
            /\ appliedBy' = "value"
            /\ fillResult' = "returned"
            /\ fpc' = "done"
       ELSE /\ fpc' = "select_partial"
            /\ UNCHANGED <<fieldElement, appliedBy, fillResult>>
    /\ UNCHANGED <<fillAction, fieldInfo>>

\* lines 335-341: the first option text that includes the value, letter case
\* apart, is selected by label; without one smartSelect returns
SelectPartial ==
    /\ fpc = "select_partial"
    /\ LET m == First({k \in 1..Len(fieldInfo.options) :
                          Includes(ToLowerCase(fieldInfo.options[k]),
                                   ToLowerCase(Wanted))}) IN
       IF m = 0
       THEN /\ fillResult' = "returned"
            /\ UNCHANGED <<fieldElement, appliedBy>>
       ELSE LET i == LabelMatch(fieldElement, fieldInfo.options[m]) IN
            IF i # 0
            THEN /\ fieldElement' = [fieldElement EXCEPT !.value = fieldElement.options[i].value]
                 /\ appliedBy' = "partial"
                 /\ fillResult' = "returned"
            ELSE /\ fillResult' = "threw"
                 /\ UNCHANGED <<fieldElement, appliedBy>>
    /\ fpc' = "done"
    /\ UNCHANGED <<fillAction, fieldInfo>>

(***************************************************************************)
(* Specifications                                                          *)
(***************************************************************************)
Init ==
    /\ ExecInit /\ ObsInit /\ ExchInit /\ ExplInit /\ PilotInit /\ ClickInit /\ ObstInit
    /\ MultiInit
    /\ UrlInit
    /\ FillInit

NextExecutor ==
    /\ \/ \E a \in Actions : ExecuteBegin(a)
       \/ ExecuteOnce
       \/ HandleWaitFor
       \/ WaitSettles
       \/ Backoff
       \/ ThrowFinal
    /\ UNCHANGED <<obsVars, exchVars, explVars, pilotVars, clickVars, obstVars, multiVars, urlVars, fillVars>>

SpecExecutor == Init /\ [][NextExecutor]_vars

NextObserver ==
    /\ \/ OnConsole
       \/ OnResponse
       \/ CaptureBegin
       \/ CaptureSlice
       \/ CaptureThrows
    /\ UNCHANGED <<execVars, exchVars, explVars, pilotVars, clickVars, obstVars, multiVars, urlVars, fillVars>>

SpecObserver == Init /\ [][NextObserver]_vars

NextExchange ==
    /\ \/ WriteAction
       \/ SendObservation
       \/ SendObservationWait
       \/ PollFound
       \/ PollMissing
       \/ Wake
       \/ WaitTimeout
    /\ UNCHANGED <<execVars, obsVars, explVars, pilotVars, clickVars, obstVars, multiVars, urlVars, fillVars>>

SpecExchange == Init /\ [][NextExchange]_vars

NextExplore ==
    /\ \/ Explore
       \/ CaptureInitial
       \/ SendFirst
       \/ LoopHead
       \/ BatchStep
       \/ CaptureAfterBatch
       \/ SendAfterBatch
       \/ ReRequest
       \/ AfterLoop
       \/ Catch
       \/ Finally
    /\ UNCHANGED <<epc, curAction, attempt, lastError, callResult, attemptsMade,
                   driverOps, delays, recentKeys, recentCalls, waits, obsVars, exchVars, pilotVars,
                   clickVars, obstVars, multiVars, urlVars, fillVars>>

SpecExplore == Init /\ [][NextExplore]_vars

\* explore() with the execute() calls of the batch followed attempt by attempt
NextSession ==
    /\ \/ /\ \/ Explore
             \/ CaptureInitial
             \/ SendFirst
             \/ LoopHead
             \/ CaptureAfterBatch
             \/ SendAfterBatch
             \/ ReRequest
             \/ AfterLoop
             \/ Catch
             \/ Finally
          /\ UNCHANGED <<epc, curAction, attempt, lastError, callResult, attemptsMade,
                         driverOps, delays, recentKeys, recentCalls, waits>>
       \/ BatchCall
       \/ /\ xpc = "executing"
          /\ \/ ExecuteOnce
             \/ Backoff
             \/ ThrowFinal
          /\ UNCHANGED explVars
       \/ BatchReturn
    /\ UNCHANGED <<obsVars, exchVars, pilotVars, clickVars, obstVars, multiVars, urlVars, fillVars>>

SpecSession == Init /\ [][NextSession]_vars

NextPilot ==
    /\ \/ PilotExecute
       \/ PilotStep
       \/ PilotTry
       \/ PilotCatch
       \/ PilotNext
       \/ PilotReport
    /\ UNCHANGED <<epc, curAction, attempt, lastError, callResult, attemptsMade,
                   driverOps, delays, recentKeys, recentCalls, waits>>
    /\ UNCHANGED <<inFlight, consoleDeltas, networkDeltas, logAtCapture>>
    /\ UNCHANGED <<exchVars, explVars, clickVars, obstVars, multiVars, urlVars, fillVars>>

SpecPilot == Init /\ [][NextPilot]_vars

NextClick ==
    /\ \/ ClickCall
       \/ Click
    /\ UNCHANGED <<execVars, obsVars, exchVars, explVars, pilotVars, obstVars, multiVars, urlVars, fillVars>>

SpecClick == Init /\ [][NextClick]_vars

NextObstacles ==
    /\ \/ HandleObstacles
       \/ DetectObstacle
       \/ HandleObstacle
       \/ HandleWithAI
       \/ GetAIDecision
       \/ Settle
    /\ UNCHANGED <<execVars, obsVars, exchVars, explVars, pilotVars, clickVars,
                   multiVars, urlVars, fillVars>>

SpecObstacles == Init /\ [][NextObstacles]_vars

NextSessions ==
    /\ \/ Tick
       \/ \E e \in Explorers : CreateSession(e)
       \/ \E e \in Explorers : SessionSends(e)
       \/ \E d \in SessionDirs : DecisionWritten(d)
       \/ \E e \in Explorers : SessionReads(e)
    /\ UNCHANGED <<execVars, obsVars, exchVars, explVars, pilotVars, clickVars,
                   obstVars, urlVars, fillVars>>

SpecSessions == Init /\ [][NextSessions]_vars

NextUrls ==
    /\ \/ FrameNavigated
       \/ CaptureUrls
    /\ UNCHANGED <<execVars, obsVars, exchVars, explVars, pilotVars, clickVars,
                   obstVars, multiVars, fillVars>>

SpecUrls == Init /\ [][NextUrls]_vars

NextFill ==
    /\ \/ FillField
       \/ GetFieldInfo
       \/ SmartType
       \/ SelectByLabel
       \/ SelectByValue
       \/ SelectPartial
    /\ UNCHANGED <<execVars, obsVars, exchVars, explVars, pilotVars, clickVars,
                   obstVars, multiVars, urlVars>>

SpecFill == Init /\ [][NextFill]_vars

(***************************************************************************)
(* Properties                                                              *)
(***************************************************************************)
CallDone == epc = "idle" /\ callResult.status # "none"
RejectedByGuard == callResult = [status |-> "error", error |-> RepeatMessage(curAction)]
ThreeAlike ==
    /\ Len(recentKeys) = 3
    /\ recentKeys[1] = recentKeys[2]
    /\ recentKeys[2] = recentKeys[3]

\* C1: when the last three execute() calls of one executor carry the same
\* fingerprint, the third has failed with the repetition-limit error and has
\* issued no driver operation (no executeOnce, no wait).
C1_RepetitionGuard ==
    ThreeAlike => /\ RejectedByGuard
                  /\ epc = "idle"
                  /\ attemptsMade = 0
                  /\ driverOps = 0

C1_Witness == ThreeAlike /\ callResult.status = "error" /\ actionRepeatCount = 3

\* C2: a loop iteration of explore() that executed a non-empty batch captures
\* no observation and requests no decision while the batch runs, and when the
\* iteration ends (and before any further batch can start) it has captured
\* exactly one observation and requested exactly one decision, whatever the
\* batch size, the failures in it and the nextCheckpoint flag.
C2_OneCheckpointPerBatch ==
    /\ (xpc = "batch") => (batchRan /\ iterObs = 0 /\ iterReq = 0)
    /\ (xpc = "send" /\ batchRan) => (iterObs = 1 /\ iterReq = 0)
    /\ (xpc = "loop" /\ batchRan) => (iterObs = 1 /\ iterReq = 1)

C2_Witness ==
    /\ xpc = "loop"
    /\ batchRan
    /\ Len(actionsToExecute) >= 2
    /\ firstFailed # 0
    /\ iterObs = 1
    /\ iterReq = 1
    /\ Len(session.observations) = 2

C4_DeltaCorrectness ==
    /\ Flatten(consoleDeltas) = SubSeq(consoleLogs, 1, logAtCapture.console)
    /\ Flatten(networkDeltas) = SubSeq(networkRequests, 1, logAtCapture.network)

C4_Witness ==
    /\ Len(consoleDeltas) >= 2
    /\ consoleDeltas[1] # << >>
    /\ consoleDeltas[2] # << >>
    /\ networkDeltas[2] # << >>
    /\ inFlight > 0
    /\ Len(consoleLogs) > logAtCapture.console

NoDuplicates(seq) == \A i, j \in 1..Len(seq) : seq[i] = seq[j] => i = j

\* C5: a poll of the decision wait that finds a well-formed action.json returns
\* that Decision, removes the file and sets the status to RUNNING, and no
\* written Decision is ever returned twice.
C5_ReadOnce ==
    /\ [][(pollCount' = pollCount + 1 /\ actionFile.exists /\ actionFile.wellFormed)
           => /\ cpc' = "running"
              /\ ~actionFile'.exists
              /\ returned' = Append(returned, actionFile.id)
              /\ statusFile' = "RUNNING"]_vars
    /\ [](NoDuplicates(returned))

C5_Witness ==
    /\ cpc = "running"
    /\ Len(returned) = 1
    /\ pollCount >= 2
    /\ ~actionFile.exists
    /\ statusFile = "RUNNING"

\* C6: the decision wait never goes on past the timeout, and when it ends by
\* the timeout error that error names action.json and the status file still
\* reads WAITING_FOR_AI.
C6_Timeout ==
    /\ (cpc \in {"wait_check", "sleeping"}) => elapsed <= TIMEOUT_MS
    /\ (cpc = "sleeping") => elapsed < TIMEOUT_MS
    /\ (cpc = "threw" /\ waitError.kind = "timeout")
       => /\ waitError.expectedFile = ActionFileName
          /\ statusFile = "WAITING_FOR_AI"
          /\ elapsed >= TIMEOUT_MS

C6_Witness ==
    /\ cpc = "threw"
    /\ waitError.kind = "timeout"
    /\ ~actionFile.exists
    /\ pollCount * POLL_INTERVAL_MS = TIMEOUT_MS

\* C7: when explore() returns after a Decision was received, a goal_achieved
\* Decision has ended the session completed, an abort or stuck Decision has
\* ended it failed with that Decision and its reasoning last in the session
\* record, and no batch action runs while the Decision in hand is terminal.
C7_TerminalDecisions ==
    /\ (xpc = "returned" /\ currentAction.decision = "goal_achieved")
       => session.status = "completed"
    /\ (xpc = "returned" /\ currentAction.decision \in {"abort", "stuck"})
       => /\ session.status = "failed"
          /\ session.actions[Len(session.actions)] = Recorded(currentAction)
    /\ (xpc = "batch") => currentAction.decision = "continue"

\* what the final session record says about why the session failed: status is
\* the only field of ExplorationSession the terminal branches write
FailureReason(s) == s.status

\* C8: a session that ends failed carries a reason that names its cause: an
\* abort or stuck decision, the exhausted step budget, or the decision timeout.
C8_FailureReason ==
    (xpc = "returned" /\ session.status = "failed"
        /\ cause \in {"abort_decision", "budget_exhausted", "decision_timeout"})
    => FailureReason(session) = cause

\* C9: an execute() call that passes the repetition guard, for an action without
\* wait_for: with retry {maxAttempts: n >= 1, backoff: b} a call that fails has
\* made n attempts with n-1 delays of b and carries n and the last error, a call
\* that succeeds on attempt k <= n has made k attempts with k-1 delays of b;
\* without a retry policy there is one attempt.
C9_RetryPolicy ==
    (CallDone /\ ~RejectedByGuard /\ ~curAction.wait_for) =>
        LET n == curAction.retry.maxAttempts
            b == curAction.retry.backoff
        IN  /\ (n # UndefinedNum /\ n >= 1 /\ b # UndefinedNum) =>
                 /\ attemptsMade <= n
                 /\ Len(delays) = attemptsMade - 1
                 /\ \A i \in 1..Len(delays) : delays[i] = b
                 /\ (callResult.status = "error") =>
                        /\ attemptsMade = n
                        /\ callResult.error =
                             "Action failed after " \o ToString(n) \o " attempts: "
                                 \o lastError
            /\ (curAction.retry = NoRetry) => (attemptsMade = 1 /\ delays = << >>)

\* C10: execute() on an action whose kind the executor does not implement ends
\* with an error, never with success.
C10_UnknownKindRejected ==
    (CallDone /\ curAction.action \notin ImplementedKinds) => callResult.status = "error"

\* C14: execute() neither returns nor fails while a wait_for condition of the
\* action is still pending: whenever the call has ended or stands in its catch
\* block, every condition has resolved or reached its own timeout.
C14_WaitsAllSettle ==
    (epc \in {"idle", "caught"}) => \A i \in 1..Len(waits) : waits[i] # "pending"

\* C15: a wait_for condition that times out is not fatal: no execute() call ends
\* with the error of a wait timeout, and no attempt after the first is started
\* because of one.
C15_WaitTimeoutNotFatal ==
    /\ (CallDone /\ callResult.status = "error" /\ ~RejectedByGuard)
       => lastError # WaitForError
    /\ (epc = "attempt" /\ attempt > 1) => lastError # WaitForError

\* the status of the first decision request has been written
FirstRequestMade == requests >= 1 /\ ~(cpc = "sending" /\ requests = 1)

\* C19: from the first decision request on the status file holds RUNNING or
\* WAITING_FOR_AI and nothing else: WAITING_FOR_AI all through a decision wait
\* (and for good when the wait ends without a Decision), RUNNING from the read of
\* the Decision until the status write of the next request.
C19_StatusTokens ==
    /\ FirstRequestMade => statusFile \in {"RUNNING", "WAITING_FOR_AI"}
    /\ (cpc \in {"wait_check", "sleeping", "threw"}) => statusFile = "WAITING_FOR_AI"
    /\ (FirstRequestMade /\ cpc \in {"running", "sending"}) => statusFile = "RUNNING"

C19_Witness ==
    /\ cpc = "sending"
    /\ requests = 2
    /\ Len(returned) = 1
    /\ statusFile = "RUNNING"

\* C20: whenever the status file reads WAITING_FOR_AI, observation.json holds
\* the observation of the checkpoint of the latest decision request, not an
\* earlier one.
C20_ObservationBeforeStatus ==
    (statusFile = "WAITING_FOR_AI") => observationFile = requests

C20_Witness ==
    /\ cpc = "wait_check"
    /\ requests = 2
    /\ observationFile = 2
    /\ statusFile = "WAITING_FOR_AI"
    /\ pollCount = 0

\* the observation recorded last, which is the one sent with the next request
LastObservation == session.observations[Len(session.observations)]

\* the observation lists the action among the actions executed so far
Mentions(o, a) ==
    \E i \in 1..Len(o.previousActions) : o.previousActions[i] = ActionSummary(a)

\* C12: a failed action of a batch does not end the session, and the
\* observation sent to the decision-maker after the batch names every action of
\* the batch that failed (the least the claim asks: the error is to be there too).
C12_FailureInObservation ==
    /\ (failures # << >>) => cause # "action_error"
    /\ (xpc = "send" /\ failures # << >>)
       => \A k \in 1..Len(failures) :
             Mentions(LastObservation, actionsToExecute[failures[k]])

\* C13: a capture that raises does not end the session: no exploration returns
\* failed because captureObservation threw.
C13_CaptureFailureTolerated ==
    (xpc = "returned" /\ cause = "capture_error") => session.status # "failed"

\* the indexes 1..n in order
UpTo(n) == [i \in 1..n |-> i]

\* C17: with stopOnError false the actions of the batch are handed to the
\* executor one by one in list order, each exactly once, whatever failed before,
\* and the observation of the batch is captured only after the last of them.
C17_ContinueThroughFailures ==
    /\ (xpc = "batch" /\ ~stopOnError)
       => (attempted = UpTo(batchIdx) /\ batchIdx < Len(actionsToExecute) /\ iterObs = 0)
    /\ (xpc = "capture" /\ ~stopOnError)
       => (attempted = UpTo(Len(actionsToExecute)) /\ iterObs = 0)
    /\ (xpc = "send" /\ ~stopOnError)
       => (attempted = UpTo(Len(actionsToExecute)) /\ iterObs = 1)

C17_Witness ==
    /\ xpc = "send"
    /\ ~stopOnError
    /\ Len(actionsToExecute) = 3
    /\ failures = <<1, 2>>
    /\ attempted = <<1, 2, 3>>
    /\ iterObs = 1

Resolves(sel, d) ==
    \E i \in 1..Len(d) : d[i].matches = sel /\ d[i].visible /\ ~d[i].disabled

\* C16: a click on target "sel1, sel2" on a page where sel1 does not resolve
\* and sel2 does succeeds, and the element clicked is one that sel2 selects.
C16_FallbackChain ==
    (clickPc = "done" /\ ~Resolves("sel1", dom) /\ Resolves("sel2", dom))
    => /\ clickOutcome.status = "success"
       /\ dom[clickOutcome.element].matches = "sel2"

\* the report lists a failed step
ReportedFailed == {k \in 1..Len(report.steps) : report.steps[k].status = "failed"}

\* C18: a scenario run with stopOnFirstFailure in which a step failed: no step
\* after the failed one was executed, the report holds one result per scenario
\* step with every step after the failed one skipped, and its status is failed.
C18_StopOnFirstFailure ==
    (ppc = "reported" /\ config.stopOnFirstFailure /\ ReportedFailed # {})
    => LET f == report.steps[CHOOSE k \in ReportedFailed : TRUE].step IN
       /\ \A k \in 1..Len(executed) : executed[k] <= f
       /\ Len(report.steps) = Len(scenario)
       /\ \A k \in (f + 1)..Len(report.steps) :
             report.steps[k] = [step |-> k, status |-> "skipped"]
       /\ report.status = "failed"

(***************************************************************************)
(* C21  session.observations and session.actions are append-only: every    *)
(* step of explore() leaves the entries already recorded unchanged and in  *)
(* place and only adds entries at the end.                                 *)
(***************************************************************************)
IsPrefix(a, b) == Len(a) <= Len(b) /\ SubSeq(b, 1, Len(a)) = a

C21_AppendOnly ==
    [][/\ IsPrefix(session.observations, session.observations')
       /\ IsPrefix(session.actions, session.actions')]_vars

\* entries were recorded after earlier ones, on both lists
C21_Witness ==
    /\ Len(session.observations) >= 2
    /\ Len(session.actions) >= 2

(***************************************************************************)
(* C22  When explore() returns, session.json holds the final session       *)
(* record: status, observations, decisions and step counter equal those of *)
(* the session object returned.                                            *)
(***************************************************************************)
C22_FinalSessionSaved ==
    xpc = "returned" =>
        /\ sessionFile.status = session.status
        /\ sessionFile.observations = session.observations
        /\ sessionFile.actions = session.actions
        /\ sessionFile.currentStep = session.currentStep

(***************************************************************************)
(* C30  The number of actions explore() hands to the executor during one   *)
(* session never exceeds the max-step budget (goal.maxSteps, default 50),  *)
(* whatever the sizes of the batches.  Counted here are the actions of the *)
(* batch in progress alone, which are among those of the session.          *)
(***************************************************************************)
C30_StepBudget == attemptedCount <= Budget(goalMaxSteps)

(***************************************************************************)
(* C24  Whenever an obstacle detected during the call is a CAPTCHA,        *)
(* handleObstacles returns false, in every aiMode and with or without an   *)
(* AI key: in particular it never returns true.                            *)
(***************************************************************************)
Detected(t) == \E i \in 1..Len(detections) : detections[i] = t

C24_CaptchaBlocks ==
    (hpc = "done" /\ Detected("captcha")) => hresult # "true"

(***************************************************************************)
(* C25  handleObstacles always ends by returning a boolean, after at most  *)
(* 5 detect-and-resolve iterations, whatever the page does.                *)
(***************************************************************************)
C25_BoundedBoolean ==
    /\ Len(detections) <= maxAttempts
    /\ hpc = "done" => hresult \in {"true", "false"}

(***************************************************************************)
(* C26  AI-assisted resolution of an obstacle is attempted only after the  *)
(* rule-based resolution of that obstacle was attempted and failed.        *)
(* As claimed, for every aiMode:                                           *)
(***************************************************************************)
InHandleWithAI == hpc \in {"ai", "ai_decision"}

C26_RulesBeforeAI_Original == InHandleWithAI => rulesTried = "failed"

\* C26 as amended: in every aiMode other than 'always' the AI is consulted on
\* an obstacle only after the rules were tried on it and failed, and never
\* after they handled it; in aiMode 'always' the rules are skipped
C26_RulesBeforeAI ==
    InHandleWithAI =>
        IF hconfig.aiMode = "always" THEN rulesTried = "no" ELSE rulesTried = "failed"

\* the rules failed on an obstacle and the AI is consulted on it
C26_Witness ==
    /\ hpc = "ai"
    /\ hconfig.aiMode = "hybrid"
    /\ rulesTried = "failed"

(***************************************************************************)
(* C27  Once the accumulated AI cost has reached config.maxAICost no       *)
(* further AI decision is requested and the obstacle is reported as not    *)
(* handled, so the accumulated cost stays below the budget plus the charge *)
(* of one decision.  A maxAICost of 0 or omitted sets no budget.           *)
(***************************************************************************)
BudgetReached == hconfig.maxAICost # 0 /\ totalAICost >= hconfig.maxAICost

CookieBannerOnly == page0 = [NoPage EXCEPT !["cookie-consent"] = "button_dismisses"]

ClearedByRulesInOne ==
    /\ hresult = "true"
    /\ detections = <<"cookie-consent">>
    /\ ~aiConsulted

C29_BoundedRequests ==
    xpc \in {"send_first", "send", "rerequest"} =>
        Len(session.actions) < Budget(goalMaxSteps)

(***************************************************************************)
(* C23  Two sessions that run side by side never share an exchange         *)
(* directory, so that no session reads or deletes a Decision written for   *)
(* another one nor overwrites its observation.json.                        *)
(***************************************************************************)
Created(e) == mpc[e] # "new"

C23_OwnDirectory ==
    /\ \A e1, e2 \in Explorers :
        (e1 # e2 /\ Created(e1) /\ Created(e2)) => sessionDir[e1] # sessionDir[e2]
    /\ \A e \in Explorers :
        /\ \A i \in 1..Len(consumed[e]) : consumed[e][i] = e
        /\ mpc[e] = "waiting" => observationOf[sessionDir[e]] = e

(***************************************************************************)
(* C31  Every Decision returned by a decision request was written after    *)
(* the observation of that request was published: an action.json written   *)
(* earlier is not consumed as the answer to the new observation.           *)
(***************************************************************************)
ReadsActionFile == cpc = "wait_check" /\ actionFile.exists /\ pollCount' = pollCount + 1

C31_FreshDecision ==
    [][(ReadsActionFile /\ Len(returned') = Len(returned) + 1)
          => actionFile.seen = requests]_vars

(***************************************************************************)
(* C35  An action.json that is read is deleted right after the read,       *)
(* whether or not its content parses as a Decision.                        *)
(***************************************************************************)
C35_DeletedAfterRead == [][ReadsActionFile => ~actionFile'.exists]_vars

(***************************************************************************)
(* C32  Whenever explore() is waiting for a decision, the session holds    *)
(* exactly one more recorded observation than recorded decisions: every    *)
(* request follows the capture of a new Observation.                       *)
(***************************************************************************)
C32_ObservationPerRequest ==
    xpc \in {"send_first", "send", "rerequest"}
        => Len(session.observations) = Len(session.actions) + 1

(***************************************************************************)
(* C33  The repetition guard rejects an execute() call only if the two     *)
(* calls before it on that executor had the same action kind, the same     *)
(* target (selector, or url for navigate) and the same value.              *)
(***************************************************************************)
C33_GuardOnlyOnRepeats ==
    (CallDone /\ RejectedByGuard)
        => /\ Len(recentCalls) = 3
           /\ recentCalls[1] = recentCalls[3]
           /\ recentCalls[2] = recentCalls[3]

(***************************************************************************)
(* C34  In a scenario run with retryFailedSteps = N, a step whose action   *)
(* fails on every attempt is attempted against the driver N+1 times before *)
(* it is reported failed, and the error reported is the action's failure:  *)
(* each of the N+1 attempts reached the driver and threw the action's      *)
(* error.                                                                  *)
(***************************************************************************)
C34_RetriesReachDriver ==
    (ppc = "after_attempts" /\ Len(stepFailures) = MaxRetriesOf(config) + 1)
        => \A k \in 1..Len(stepFailures) : stepFailures[k] = "action"

(***************************************************************************)
(* C36  A step flagged observe whose action causes a console error or a    *)
(* response with status >= 400 is reported with status warning, unless the *)
(* step failed, and the report status is then at least warning.            *)
(***************************************************************************)
C36_ErrorsRaiseWarning ==
    ppc = "reported" =>
        \A k \in 1..Len(stepObservations) :
            (/\ scenario[stepObservations[k].step].observe
             /\ stepObservations[k].caused
             /\ report.steps[k].status # "failed")
                => /\ report.steps[k].status = "warning"
                   /\ report.status \in {"warning", "failed"}

(***************************************************************************)
(* C37  summary.consoleErrors and summary.networkErrors of the report      *)
(* equal the number of console error events and of responses with status   *)
(* >= 400 logged up to the last observation taken: each such event is      *)
(* counted in exactly one step's recorded observation.                     *)
(***************************************************************************)
C37_ErrorTotals ==
    ppc = "reported" =>
        /\ report.consoleErrors =
               ConsoleErrorCount(SubSeq(consoleLogs, 1, lastObservationIndex.console))
        /\ report.networkErrors =
               NetworkErrorCount(SubSeq(networkRequests, 1, lastObservationIndex.network))

(***************************************************************************)
(* C38  An Observation reports urlChanged true exactly when the URL of the *)
(* page differs from the URL at the previous Observation.                  *)
(***************************************************************************)
C38_UrlChanged ==
    \A k \in 2..Len(urlObservations) :
        urlObservations[k].urlChanged
            <=> urlObservations[k].urlAfter # urlObservations[k - 1].urlAfter

(***************************************************************************)
(* C39  handleObstacles returns true whenever every obstacle it detected   *)
(* was resolved and no obstacle remains on the page, also when five        *)
(* obstacles had to be cleared one after the other.                        *)
(***************************************************************************)
AllResolved == attemptCount = Len(detections)

C39_ClearedMeansTrue ==
    (hpc = "done" /\ AllResolved /\ page = NoPage) => hresult = "true"

(***************************************************************************)
(* C40  fill_field succeeds only when one of its strategies applied the    *)
(* requested value to the field: on a disabled, readonly or hidden field   *)
(* without force, and on a select none of whose options matches by label,  *)
(* value or substring, the action fails.                                   *)
(***************************************************************************)
C40_FillApplies ==
    (fpc = "done" /\ fillResult = "returned") => appliedBy # "none"

====
